---- MODULE Spec2Model ----
(***************************************************************************)
(* A model of the email builder's stateful core:                           *)
(*   - DataLoader  (src/src/email-builder/data-loader.ts): the TTL data    *)
(*     cache, the json / api / database source dispatch with its fallback  *)
(*     chain, and the deep merge of overrides;                             *)
(*   - FileWatcher (src/unnamed/part_003): debounced collection of raw     *)
(*     file events and their classification into one burst;                *)
(*   - EmailCompiler (src/unnamed/part_005): init, reload and compile      *)
(*     suspended at their awaits, the layout / partial / template maps,    *)
(*     rendering, layout wrapping and subject extraction;                  *)
(*   - PreviewServer (src/src/email-builder/preview-server.ts): the        *)
(*     change handler that reloads, clears the data cache and broadcasts.  *)
(*                                                                         *)
(* JSON values are records [tag, atom, kids]:                              *)
(*   tag  in "undef","null","bool","num","str","arr","obj"                 *)
(*   atom the text of a primitive ("" for the others)                      *)
(*   kids the own enumerable properties of an object or array, a function  *)
(*        from property names to JSON values; an array's property names    *)
(*        are its indices "0","1",... as in JavaScript.                    *)
(***************************************************************************)
EXTENDS Integers, Sequences, FiniteSets, TLC

VARIABLES
    config,           \* the resolved Config (immutable after construction)
    files,            \* data directory: file name -> [st, doc]
    cache,            \* DataLoader.cache: cache key -> TemplateData
    cacheTimestamps,  \* DataLoader.cacheTimestamps: cache key -> insertion time
    inflight,         \* load() calls suspended at an await: slot -> record
    now,              \* Date.now()
    obs,              \* the last DataLoader event, as seen by its caller
    clearedSince,     \* TRUE from a clearCache() until the next cache write
    mBase, mOver, mResult, mDone,   \* one application of _deepMerge
    watching,         \* FileWatcher.watcher !== null
    debounceTimer,    \* FileWatcher.debounceTimer: a timer id or NoTimer
    timers,           \* the armed timers of the runtime: set of [id, due]
    nextTimerId,      \* the id the next setTimeout returns
    pendingChanges,   \* FileWatcher.pendingChanges
    burst,            \* the WatcherChangeEvent the last step emitted, if any
    window,           \* raw events handled since the last emission
    lastEventAt,      \* the time of the last raw event
    emitCount,        \* number of bursts emitted so far
    eventCount,       \* number of raw events handled so far
    wobs,             \* the last FileWatcher step
    observers,        \* the chokidar observers created and not closed
    listeners,        \* the 'error' listeners registered on the FileWatcher
    tree,             \* the template tree on disk: root -> [st, ents]
    layouts,          \* EmailCompiler.layouts: name -> source
    partials,         \* EmailCompiler.partials: name -> source
    templates,        \* EmailCompiler.templates: name -> source
    initialized,      \* EmailCompiler.initialized
    calls,            \* compiler calls suspended at an await: slot -> record
    cobs,             \* the last EmailCompiler event, as seen by its caller
    sent,             \* PreviewServer: the messages broadcast so far
    servers           \* the PreviewServers started on the builder, in order

dataVars  == <<config, files, cache, cacheTimestamps, inflight, obs, clearedSince>>
mergeVars == <<mBase, mOver, mResult, mDone>>
watchVars == <<watching, debounceTimer, timers, nextTimerId, pendingChanges,
               burst, window, lastEventAt, emitCount, eventCount, wobs,
               observers, listeners>>
storeVars == <<tree, layouts, partials, templates, initialized, calls, cobs>>
vars      == <<dataVars, now, mergeVars, watchVars, storeVars, sent, servers>>

-----------------------------------------------------------------------------
(* JSON values                                                             *)

NoKids == [k \in {} |-> ""]

JPrim(t, a) == [tag |-> t, atom |-> a, kids |-> NoKids]
JUndef      == JPrim("undef", "")
JNull       == JPrim("null", "")
JBool(b)    == JPrim("bool", b)
JNum(n)     == JPrim("num", n)
JStr(s)     == JPrim("str", s)
JArr(f)     == [tag |-> "arr", atom |-> "", kids |-> f]
JObj(f)     == [tag |-> "obj", atom |-> "", kids |-> f]
EmptyObj    == JObj(NoKids)

Arr1(x)    == [i \in {"0"} |-> x]
Arr2(x, y) == [i \in {"0", "1"} |-> IF i = "0" THEN x ELSE y]

\* JavaScript truthiness of a JSON value (the operand of && and ||).
Truthy(v) ==
    ~ \/ v.tag \in {"undef", "null"}
      \/ v.tag = "bool" /\ v.atom = "false"
      \/ v.tag = "num"  /\ v.atom = "0"
      \/ v.tag = "str"  /\ v.atom = ""

\* The indexed characters of a string (the sample strings have length <= 2).
StrChars(s) ==
    CASE s = ""   -> NoKids
      [] s = "hi" -> Arr2(JStr("h"), JStr("i"))
      [] OTHER    -> Arr1(JStr(s))

\* { ...v }: the own enumerable properties of v; none for null, undefined,
\* numbers and booleans; the indices of an array; the characters of a string.
Spread(v) ==
    CASE v.tag \in {"obj", "arr"} -> v.kids
      [] v.tag = "str"            -> StrChars(v.atom)
      [] OTHER                    -> NoKids

\* o[k] on the property map of a plain object (own properties: the sampled
\* keys are no members of Object.prototype).
Get(f, k) == IF k \in DOMAIN f THEN f[k] ELSE JUndef

\* source[key] && typeof source[key] === "object" && !Array.isArray(source[key])
IsPlainObject(v) == Truthy(v) /\ v.tag = "obj"

\* x || {}
OrEmpty(v) == IF Truthy(v) THEN v ELSE EmptyObj

\* DataLoader._deepMerge(target, source)
RECURSIVE DeepMerge(_, _)
DeepMerge(target, source) ==
    LET t == Spread(target)
        keys == DOMAIN source.kids
    IN  JObj([k \in (DOMAIN t) \cup keys |->
                IF k \in keys
                THEN IF IsPlainObject(source.kids[k])
                     THEN DeepMerge(OrEmpty(Get(t, k)), source.kids[k])
                     ELSE source.kids[k]
                ELSE t[k]])

-----------------------------------------------------------------------------
(* _deepMerge as a function of its two arguments                           *)

\* Values that can sit under a key of loaded template data.
BaseValues ==
    { JNull, JNum("0"), JNum("5"), JBool("true"), JStr(""), JStr("hi"),
      JArr(NoKids), JArr(Arr2(JNum("1"), JNum("2"))),
      EmptyObj,
      JObj([k \in {"b", "c"} |-> IF k = "b" THEN JNum("1") ELSE JNum("2")]),
      JObj([k \in {"b"} |-> JObj([j \in {"d"} |-> JNum("1")])]),
      JObj([k \in {"b"} |-> JArr(Arr1(JNum("1")))]) }

\* Values that can sit under a key of the overrides.
OverrideValues ==
    { JNull, JNum("9"), JStr("x"), JArr(Arr1(JNum("3"))),
      EmptyObj,
      JObj([k \in {"b"} |-> JNum("9")]),
      JObj([k \in {"b"} |-> JObj([j \in {"e"} |-> JNum("9")])]),
      JObj([k \in {"b"} |-> JArr(Arr1(JNum("7")))]) }

\* Base data: a key "keep" the overrides never mention, and "a" absent or
\* holding any base value.
BaseSamples ==
    { JObj([k \in {"keep"} |-> JNum("1")]) } \cup
    { JObj([k \in {"keep", "a"} |-> IF k = "a" THEN v ELSE JNum("1")]) : v \in BaseValues }

\* Overrides: "a" holding any override value, alone or with a new key "n".
OverrideSamples ==
    { JObj([k \in {"a"} |-> w]) : w \in OverrideValues } \cup
    { JObj([k \in {"a", "n"} |-> IF k = "a" THEN w ELSE JNum("1")]) : w \in OverrideValues }

MergeIdle ==
    /\ mBase = EmptyObj /\ mOver = EmptyObj /\ mResult = JUndef /\ mDone = FALSE

\* loadWithOverrides once load() has produced baseData: the merge step.
ApplyMerge ==
    /\ mDone = FALSE
    /\ mResult' = DeepMerge(mBase, mOver)
    /\ mDone' = TRUE
    /\ UNCHANGED <<mBase, mOver, dataVars, now, watchVars, storeVars, sent, servers>>

-----------------------------------------------------------------------------
(* DataLoader: configuration, data directory and cache                     *)

Ttl         == 2    \* config.cache.ttl, in clock ticks
MaxInflight == 2    \* load() calls that can be suspended at once

Names == {"welcome", "promo"}

\* Query parameters, in insertion order: none, or id=1.
NoParams == << >>
IdParams == << <<"id", "1">> >>
ParamSets == {NoParams, IdParams}

\* JSON.stringify(params): the key/value pairs in insertion order.
Stringify(params) == params

\* A cache key that leaves the params out.
CacheKeyNameOnly(templateName, params) == <<templateName, NoParams>>

\* DataLoader._getCacheKey(templateName, params)
CacheKey(templateName, params) == <<templateName, Stringify(params)>>

Doc(title) == JObj([k \in {"title"} |-> JStr(title)])

\* A file of the data directory: absent, readable JSON (doc), a file whose
\* text is not JSON, or a file that cannot be read.
Absent      == [st |-> "absent",  doc |-> JUndef]
BadJson     == [st |-> "badjson", doc |-> JUndef]
Unreadable  == [st |-> "eacces",  doc |-> JUndef]
Unread      == [st |-> "unread",  doc |-> JUndef]
Holding(d)  == [st |-> "ok", doc |-> d]

SampleFile == "sample-data"

\* path.join(dataDir, `${templateName}.json`), as a key of the directory
SpecificFile(templateName) == templateName

\* Contents of <name>.json: template data (TemplateData is an object type).
SpecificDocs == {Doc("v1"), Doc("v2")}

\* Contents of sample-data.json: an object of per-template entries.
SampleDocs ==
    { EmptyObj,
      JObj([k \in {"welcome"} |-> Doc("sample-welcome")]),
      JObj([k \in {"default"} |-> Doc("sample-default")]),
      JObj([k \in {"welcome", "default"} |->
              IF k = "welcome" THEN Doc("sample-welcome") ELSE Doc("sample-default")]) }

\* Bodies the API can answer with.
ApiDocs == {Doc("api")}

\* How the fetch can end: the headers of a 2xx answer, those of a non-2xx
\* answer, the abort on timeout, a network failure.
ApiOutcomes == {"ok", "non2xx", "timeout", "network"}

NoEntries == [k \in {} |-> JUndef]
NoStamps  == [k \in {} |-> 0]

\* A slot of suspended load() calls that holds none. stage: the await the
\* call is suspended at ("api": fetch, "body": response.json(), "specific"
\* and "sample": the readFile of that file); body: the body of the answer
\* on its way; stale: clearCache() has run since that answer was given.
Idle == [stage |-> "idle", name |-> "", params |-> NoParams, merge |-> FALSE,
         over |-> EmptyObj, reads |-> {}, sawSpecific |-> Unread,
         body |-> JUndef, stale |-> FALSE]

\* What a caller or an observer of the data directory can tell of a step:
\*   op           "hit", "miss" or "fail" for a load() call that returned from
\*                the cache, suspended on a source, or threw at once; "done" or
\*                "fail" for a suspended call that resolved or rejected;
\*                "clear" for clearCache()
\*   merge        the call is the load inside loadWithOverrides
\*   validBefore, stored, age, clearedBefore
\*                at the call: whether an entry for the key existed with
\*                caching enabled and now - insertedAt < ttl, the entry's value,
\*                its age (-1 without one), whether the cache had been
\*                cleared and not written since
\*   data, ret    the data loaded or found, and the value returned
\*   err          the error thrown
\*   reads        the sources read: "api", "specific", "sample"
\*   sawSpecific, sawSample   the files as they were when read
\*   wrote, at    whether the cache was written, and when the call resolved
\*   dropped      the number of entries clearCache() found
\*   stale        the data was on its way when clearCache() ran
NoObs == [op |-> "none", name |-> "", params |-> NoParams, merge |-> FALSE,
          validBefore |-> FALSE, stored |-> JUndef, age |-> -1,
          clearedBefore |-> FALSE, data |-> JUndef, ret |-> JUndef,
          err |-> "none", reads |-> {}, wrote |-> FALSE, at |-> 0, dropped |-> 0,
          sawSpecific |-> Unread, sawSample |-> Unread, stale |-> FALSE]

\* DataLoader._isCacheValid(cacheKey): the variant that compares with <=
\* instead of <.
IsCacheValidInclusive(cacheKey) ==
    /\ config.cacheEnabled
    /\ cacheKey \in DOMAIN cache
    /\ cacheKey \in DOMAIN cacheTimestamps
    /\ now - cacheTimestamps[cacheKey] <= config.ttl

\* DataLoader._isCacheValid(cacheKey): the variant that expires an entry one
\* tick early.
IsCacheValidEarly(cacheKey) ==
    /\ config.cacheEnabled
    /\ cacheKey \in DOMAIN cache
    /\ cacheKey \in DOMAIN cacheTimestamps
    /\ now - cacheTimestamps[cacheKey] < config.ttl - 1

\* DataLoader._isCacheValid(cacheKey)
IsCacheValid(cacheKey) ==
    /\ config.cacheEnabled
    /\ cacheKey \in DOMAIN cache
    /\ cacheKey \in DOMAIN cacheTimestamps
    /\ now - cacheTimestamps[cacheKey] < config.ttl

\* this.cache.get(cacheKey)
CacheGet(cacheKey) == IF cacheKey \in DOMAIN cache THEN cache[cacheKey] ELSE JUndef

\* const cached = this.cache.get(cacheKey); cached && this._isCacheValid(cacheKey)
CacheHit(cacheKey) == Truthy(CacheGet(cacheKey)) /\ IsCacheValid(cacheKey)

\* What the caller of load / loadWithOverrides gets from the loaded data.
Returned(merge, over, data) == IF merge THEN DeepMerge(data, over) ELSE data

FreeSlots == {i \in 1..MaxInflight : inflight[i].stage = "idle"}

\* The entry state of a load() call, as a caller could observe it.
CallObs(templateName, params, merge) ==
    LET key == <<templateName, params>>
        has == key \in DOMAIN cache /\ key \in DOMAIN cacheTimestamps
    IN  [NoObs EXCEPT !.name = templateName, !.params = params, !.merge = merge,
                      !.validBefore = /\ config.cacheEnabled
                                      /\ has
                                      /\ now - cacheTimestamps[key] < config.ttl,
                      !.stored = IF key \in DOMAIN cache THEN cache[key] ELSE JUndef,
                      !.age = IF has THEN now - cacheTimestamps[key] ELSE -1,
                      !.clearedBefore = clearedSince]

\* The first stage of a cache miss: the switch on config.dataSource.type,
\* and the synchronous part of _loadFromApi.
FirstStage ==
    CASE config.sourceType = "api" /\ config.endpoint = "none"      -> "specific"
      [] config.sourceType = "api" /\ config.endpoint = "malformed" -> "throw"
      [] config.sourceType = "api"                                  -> "api"
      [] OTHER                                                      -> "specific"

\* load(templateName, params) up to its first await; merge/over make it the
\* load inside loadWithOverrides(templateName, over, params).
LoadCall(templateName, params, merge, over) ==
    LET key == CacheKey(templateName, params)
        call == CallObs(templateName, params, merge)
    IN  IF CacheHit(key)
        THEN /\ obs' = [call EXCEPT !.op = "hit", !.data = CacheGet(key),
                                    !.ret = Returned(merge, over, CacheGet(key))]
             /\ UNCHANGED <<config, files, cache, cacheTimestamps, inflight, clearedSince>>
        ELSE IF FirstStage = "throw"
        THEN \* new URL(endpoint) throws outside the try block
             /\ obs' = [call EXCEPT !.op = "fail", !.err = "TypeError"]
             /\ UNCHANGED <<config, files, cache, cacheTimestamps, inflight, clearedSince>>
        ELSE /\ FreeSlots # {}
             /\ LET i == CHOOSE j \in FreeSlots : \A k \in FreeSlots : j <= k IN
                inflight' = [inflight EXCEPT ![i] =
                    [Idle EXCEPT !.stage = FirstStage, !.name = templateName,
                                 !.params = params, !.merge = merge, !.over = over]]
             /\ obs' = [call EXCEPT !.op = "miss"]
             /\ UNCHANGED <<config, files, cache, cacheTimestamps, clearedSince>>

\* The tail of load() for the suspended call r of slot i: cache the result
\* when caching is enabled, return it.
Finish(i, r, data, sawSample) ==
    LET key == CacheKey(r.name, r.params) IN
    /\ IF config.cacheEnabled
       THEN /\ cache' = [k \in (DOMAIN cache) \cup {key} |->
                            IF k = key THEN data ELSE cache[k]]
            /\ cacheTimestamps' = [k \in (DOMAIN cacheTimestamps) \cup {key} |->
                            IF k = key THEN now ELSE cacheTimestamps[k]]
            /\ clearedSince' = FALSE
       ELSE UNCHANGED <<cache, cacheTimestamps, clearedSince>>
    /\ inflight' = [inflight EXCEPT ![i] = Idle]
    /\ obs' = [NoObs EXCEPT !.op = "done", !.name = r.name, !.params = r.params,
                            !.merge = r.merge, !.data = data,
                            !.ret = Returned(r.merge, r.over, data),
                            !.reads = r.reads, !.wrote = config.cacheEnabled,
                            !.at = now, !.sawSpecific = r.sawSpecific,
                            !.sawSample = sawSample, !.stale = r.stale]
    /\ UNCHANGED <<config, files>>

\* load() rejects: the error thrown by a stage propagates to the caller.
Fail(i, r, error, sawSample) ==
    /\ inflight' = [inflight EXCEPT ![i] = Idle]
    /\ obs' = [NoObs EXCEPT !.op = "fail", !.name = r.name, !.params = r.params,
                            !.merge = r.merge, !.err = error, !.reads = r.reads,
                            !.at = now,
                            !.sawSpecific = r.sawSpecific, !.sawSample = sawSample]
    /\ UNCHANGED <<config, files, cache, cacheTimestamps, clearedSince>>

\* _loadFromApi after the fetch settles. A 2xx answer, whose body the server
\* has made up by now: clearTimeout, then response.json() is awaited; every
\* failure (a DataLoadError for a non-2xx answer included) is caught and
\* continues with _loadFromJson.
ApiSettle(i, outcome, body) ==
    /\ inflight[i].stage = "api"
    /\ LET r == [inflight[i] EXCEPT !.reads = @ \cup {"api"}] IN
       inflight' = [inflight EXCEPT ![i] =
                       IF outcome = "ok"
                       THEN [r EXCEPT !.stage = "body", !.body = body]
                       ELSE [r EXCEPT !.stage = "specific"]]
    /\ UNCHANGED <<config, files, cache, cacheTimestamps, obs, clearedSince>>

\* response.json() settles: the body parsed, or a rejection (the text is not
\* JSON, the connection broke) that is caught and continues with
\* _loadFromJson. No timer is armed while it is pending.
ApiBody(i, parsed) ==
    /\ inflight[i].stage = "body"
    /\ LET r == inflight[i] IN
       IF parsed
       THEN Finish(i, r, r.body, Unread)
       ELSE /\ inflight' = [inflight EXCEPT ![i] =
                               [r EXCEPT !.stage = "specific", !.body = JUndef,
                                         !.stale = FALSE]]
            /\ UNCHANGED <<config, files, cache, cacheTimestamps, obs, clearedSince>>

\* The error a failed read or parse of a data file raises: the raw error is
\* rethrown (throw err).
ReadError(f) == IF f.st = "badjson" THEN "SyntaxError" ELSE "EACCES"

\* _loadFromJson, first half: fs.readFile + JSON.parse of <name>.json.
ReadSpecific(i) ==
    /\ inflight[i].stage = "specific"
    /\ LET f == files[SpecificFile(inflight[i].name)]
           r == [inflight[i] EXCEPT !.sawSpecific = f, !.reads = @ \cup {"specific"}]
       IN  CASE f.st = "ok"     -> Finish(i, r, f.doc, Unread)
             [] f.st = "absent" -> /\ inflight' = [inflight EXCEPT ![i] =
                                                      [r EXCEPT !.stage = "sample"]]
                                   /\ UNCHANGED <<config, files, cache, cacheTimestamps,
                                                  obs, clearedSince>>
             [] OTHER           -> Fail(i, r, ReadError(f), Unread)

\* allData.default || allData[templateName] || {}: the default entry first.
SampleEntryDefaultFirst(allData, templateName) ==
    LET own == Get(allData.kids, templateName)
        dflt == Get(allData.kids, "default")
    IN  IF Truthy(dflt) THEN dflt ELSE OrEmpty(own)

\* allData[templateName] || allData.default || {}
SampleEntry(allData, templateName) ==
    LET own == Get(allData.kids, templateName)
        dflt == Get(allData.kids, "default")
    IN  IF Truthy(own) THEN own ELSE OrEmpty(dflt)

\* _loadFromJson, second half: fs.readFile + JSON.parse of sample-data.json.
ReadSample(i) ==
    /\ inflight[i].stage = "sample"
    /\ LET f == files[SampleFile]
           r == [inflight[i] EXCEPT !.reads = @ \cup {"sample"}]
       IN  CASE f.st = "ok"     -> Finish(i, r, SampleEntry(f.doc, r.name), f)
             [] f.st = "absent" -> Finish(i, r, EmptyObj, f)
             [] OTHER           -> Fail(i, r, ReadError(f), f)

\* clearCache() that forgets the timestamps only.
ClearTimestampsOnly ==
    /\ cacheTimestamps' = NoStamps
    /\ clearedSince' = TRUE
    /\ obs' = [NoObs EXCEPT !.op = "clear", !.dropped = Cardinality(DOMAIN cache)]
    /\ UNCHANGED <<config, files, cache, inflight>>

\* DataLoader.clearCache(): the maps are emptied; the calls in flight go on,
\* those whose answer is on its way with data from before the clearing.
ClearCache ==
    /\ cache' = NoEntries
    /\ cacheTimestamps' = NoStamps
    /\ clearedSince' = TRUE
    /\ obs' = [NoObs EXCEPT !.op = "clear", !.dropped = Cardinality(DOMAIN cache)]
    /\ inflight' = [i \in DOMAIN inflight |->
                       [inflight[i] EXCEPT !.stale = @ \/ inflight[i].stage = "body"]]
    /\ UNCHANGED <<config, files>>

\* The data directory changes under the program.
WriteFile(name, f) ==
    /\ files[name] # f
    /\ files' = [files EXCEPT ![name] = f]
    /\ UNCHANGED <<config, cache, cacheTimestamps, inflight, obs, clearedSince>>

-----------------------------------------------------------------------------
(* FileWatcher                                                             *)

Debounce  == 2    \* config.watcher.debounce, in clock ticks
MaxEvents == 5    \* raw file events handled in one run of the model
MaxListeners == 1 \* 'error' listeners registered in one run of the model
MaxServers == 2   \* preview servers started on one builder
MaxClients == 2   \* sockets that connect to the preview servers

NoTimer == 0

\* A path is the sequence of its segments; a segment is a name split at its
\* last dot: stem and extension.
Seg(stem, ext) == [stem |-> stem, ext |-> ext]
Dir(name)      == Seg(name, "")

\* config.templatesDir
TemplatesDir == << Dir("srv"), Dir("templates") >>

LayoutMain     == TemplatesDir \o << Dir("layouts"),  Seg("main", ".hbs") >>
PartialHeader  == TemplatesDir \o << Dir("partials"), Seg("header", ".hbs") >>
EmailWelcome   == TemplatesDir \o << Dir("emails"),   Seg("welcome", ".hbs") >>
EmailNestedCss == TemplatesDir \o << Dir("emails"),   Dir("layouts"), Seg("welcome", ".css") >>
SharedStyles   == TemplatesDir \o << Dir("shared"),   Seg("styles", ".css") >>
RootLayouts    == TemplatesDir \o << Seg("layouts", ".hbs") >>

\* The raw events chokidar can report: every event kind, a file of every
\* class, two files with one base name, a root file named like a directory.
RawEvents ==
    { [event |-> "change", filePath |-> LayoutMain],
      [event |-> "add",    filePath |-> PartialHeader],
      [event |-> "change", filePath |-> EmailWelcome],
      [event |-> "unlink", filePath |-> EmailWelcome],
      [event |-> "change", filePath |-> EmailNestedCss],
      [event |-> "change", filePath |-> SharedStyles],
      [event |-> "add",    filePath |-> RootLayouts] }

\* path.relative(templatesDir, filePath).split(path.sep), for the watched
\* paths, which all lie under templatesDir
RelativeParts(filePath) == SubSeq(filePath, Len(TemplatesDir) + 1, Len(filePath))

\* path.basename(filePath, path.extname(filePath))
BaseName(filePath) == filePath[Len(filePath)].stem

\* _parseFilePath typing by the path's last directory instead of its first.
ParseFilePathByParent(filePath) ==
    LET parts == RelativeParts(filePath)
        parent == IF Len(parts) >= 2 THEN parts[Len(parts) - 1] ELSE parts[1]
    IN  [type |-> CASE parent = Dir("layouts")  -> "layout"
                    [] parent = Dir("partials") -> "partial"
                    [] parent = Dir("emails")   -> "email"
                    [] OTHER                    -> "unknown",
         name |-> BaseName(filePath)]

\* FileWatcher._parseFilePath(filePath)
ParseFilePath(filePath) ==
    LET parts == RelativeParts(filePath) IN
    [type |-> CASE parts[1] = Dir("layouts")  -> "layout"
                [] parts[1] = Dir("partials") -> "partial"
                [] parts[1] = Dir("emails")   -> "email"
                [] OTHER                      -> "unknown",
     name |-> BaseName(filePath)]

\* The FileChange _handleChange records for a raw event.  It is stored as its
\* JSON text and parsed back on emission; texts are equal exactly when the
\* five fields are, so the record stands for the text.
Description(event, filePath) ==
    LET info == ParseFilePath(filePath) IN
    [event |-> event, filePath |-> filePath, relativePath |-> RelativeParts(filePath),
     type |-> info.type, name |-> info.name]

NoBurst == [changes |-> {}, reloadTypes |-> {}, changedTemplates |-> {},
            needsFullReload |-> FALSE]

\* The last step of the watcher: what it was, when, and for an emission the
\* raw events handled since the emission before and the time of the last.
NoStep == [op |-> "none", at |-> 0, window |-> {}, lastEventAt |-> 0]
Step(op) == [NoStep EXCEPT !.op = op, !.at = now]

\* clearTimeout that cancels nothing.
CancelNone(id) == timers

\* clearTimeout(id): the timer, if still armed, will not fire.
Cancel(id) == {t \in timers : t.id # id}

\* _handleChange that arms a new timer without cancelling the armed one.
HandleChangeNoCancel(event, filePath) ==
    /\ watching = "on"
    /\ eventCount < MaxEvents
    /\ pendingChanges' = pendingChanges \cup {Description(event, filePath)}
    /\ timers' = timers \cup {[id |-> nextTimerId, due |-> now + config.debounce]}
    /\ debounceTimer' = nextTimerId
    /\ nextTimerId' = nextTimerId + 1
    /\ window' = window \cup {[event |-> event, filePath |-> filePath]}
    /\ lastEventAt' = now
    /\ eventCount' = eventCount + 1
    /\ wobs' = Step("event")
    /\ burst' = NoBurst
    /\ UNCHANGED <<watching, emitCount, observers, listeners>>

\* FileWatcher._handleChange(event, filePath), called for a raw event of the
\* running watcher.
HandleChange(event, filePath) ==
    /\ watching = "on"
    /\ eventCount < MaxEvents
    /\ pendingChanges' = pendingChanges \cup {Description(event, filePath)}
    /\ timers' = (IF debounceTimer # NoTimer THEN Cancel(debounceTimer) ELSE timers)
                 \cup {[id |-> nextTimerId, due |-> now + config.debounce]}
    /\ debounceTimer' = nextTimerId
    /\ nextTimerId' = nextTimerId + 1
    /\ window' = window \cup {[event |-> event, filePath |-> filePath]}
    /\ lastEventAt' = now
    /\ eventCount' = eventCount + 1
    /\ wobs' = Step("event")
    /\ burst' = NoBurst
    /\ UNCHANGED <<watching, emitCount, observers, listeners>>

\* The burst built from layout changes alone.
BurstOfLayoutsOnly(changes) ==
    LET reloadTypes == {"layouts" : c \in {d \in changes : d.type = "layout"}} IN
    [changes |-> changes,
     reloadTypes |-> reloadTypes,
     changedTemplates |-> {c.name : c \in {d \in changes : d.type = "email"}},
     needsFullReload |-> reloadTypes # {}]

\* The WatcherChangeEvent _emitChanges builds from the pending changes.
BurstOf(changes) ==
    LET reloadTypes ==
            {"layouts"  : c \in {d \in changes : d.type = "layout"}} \cup
            {"partials" : c \in {d \in changes : d.type = "partial"}}
    IN  [changes |-> changes,
         reloadTypes |-> reloadTypes,
         changedTemplates |-> {c.name : c \in {d \in changes : d.type = "email"}},
         needsFullReload |-> Cardinality(reloadTypes) > 0]

\* _emitChanges() without pendingChanges.clear().
EmitKeepsPending(t) ==
    /\ t \in timers /\ t.due <= now
    /\ timers' = timers \ {t}
    /\ burst' = BurstOf(pendingChanges)
    /\ window' = {}
    /\ emitCount' = emitCount + 1
    /\ wobs' = [Step("emit") EXCEPT !.window = window, !.lastEventAt = lastEventAt]
    /\ UNCHANGED <<watching, debounceTimer, nextTimerId, lastEventAt, eventCount,
                   pendingChanges, observers, listeners>>

\* The debounce timer t fires: FileWatcher._emitChanges().
EmitChanges(t) ==
    /\ t \in timers
    /\ t.due <= now
    /\ timers' = timers \ {t}
    /\ pendingChanges' = {}
    /\ burst' = BurstOf(pendingChanges)
    /\ window' = {}
    /\ emitCount' = emitCount + 1
    /\ wobs' = [Step("emit") EXCEPT !.window = window, !.lastEventAt = lastEventAt]
    /\ UNCHANGED <<watching, debounceTimer, nextTimerId, lastEventAt, eventCount,
                   observers, listeners>>

\* start() without its guard: a new observer on every call.
StartAlways ==
    /\ watching' = "on"
    /\ observers' = observers + 1
    /\ wobs' = Step("start")
    /\ burst' = NoBurst
    /\ UNCHANGED <<debounceTimer, timers, nextTimerId, pendingChanges, window,
                   lastEventAt, emitCount, eventCount, listeners>>

\* FileWatcher.start(): a no-op while a watcher exists; otherwise
\* chokidar.watch() creates an observer and the handlers are registered on it.
Starts ==
    /\ watching' = IF watching = "off" THEN "on" ELSE watching
    /\ observers' = IF watching = "off" THEN observers + 1 ELSE observers
    /\ wobs' = Step("start")
    /\ burst' = NoBurst
    /\ UNCHANGED <<debounceTimer, timers, nextTimerId, pendingChanges, window,
                   lastEventAt, emitCount, eventCount>>

\* start() called on its own: the listeners of the FileWatcher stay.
Start == Starts /\ UNCHANGED listeners

\* FileWatcher.stop() up to `await this.watcher.close()`; without a watcher
\* there is nothing to await and the timer is cancelled at once.
StopCall ==
    /\ watching # "closing"
    /\ IF watching = "on"
       THEN /\ watching' = "closing"
            /\ observers' = observers - 1
            /\ UNCHANGED <<debounceTimer, timers>>
       ELSE /\ timers' = IF debounceTimer # NoTimer THEN Cancel(debounceTimer) ELSE timers
            /\ debounceTimer' = NoTimer
            /\ UNCHANGED <<watching, observers>>
    /\ wobs' = Step("stop")
    /\ burst' = NoBurst
    /\ UNCHANGED <<nextTimerId, pendingChanges, window, lastEventAt, emitCount,
                   eventCount, listeners>>

\* stop() resuming without clearTimeout.
StopResumeKeepsTimer ==
    /\ watching = "closing"
    /\ watching' = "off"
    /\ debounceTimer' = NoTimer
    /\ wobs' = Step("stopped")
    /\ burst' = NoBurst
    /\ UNCHANGED <<timers, nextTimerId, pendingChanges, window, lastEventAt,
                   emitCount, eventCount, observers, listeners>>

\* FileWatcher.stop() after the close has resolved.
StopResume ==
    /\ watching = "closing"
    /\ watching' = "off"
    /\ timers' = IF debounceTimer # NoTimer THEN Cancel(debounceTimer) ELSE timers
    /\ debounceTimer' = NoTimer
    /\ wobs' = Step("stopped")
    /\ burst' = NoBurst
    /\ UNCHANGED <<nextTimerId, pendingChanges, window, lastEventAt, emitCount,
                   eventCount, observers, listeners>>

\* FileWatcher.on("error", callback).
On ==
    /\ listeners < MaxListeners
    /\ listeners' = listeners + 1
    /\ UNCHANGED <<watching, debounceTimer, timers, nextTimerId, pendingChanges,
                   burst, window, lastEventAt, emitCount, eventCount, wobs,
                   observers>>

\* The observer reports an error and start()'s handler passes it to
\* emit("error", error): the listeners are called, and with none registered
\* the emitter throws the error out of the handler.
ObserverError ==
    /\ watching = "on"
    /\ wobs' = Step(IF listeners = 0 THEN "throw" ELSE "error")
    /\ burst' = NoBurst
    /\ UNCHANGED <<watching, debounceTimer, timers, nextTimerId, pendingChanges,
                   window, lastEventAt, emitCount, eventCount, observers, listeners>>

-----------------------------------------------------------------------------
(* EmailCompiler: templates, rendering and subject extraction              *)
(*                                                                         *)
(* A Handlebars source is a sequence of nodes [k, v]:                      *)
(*   "text"    literal output v                                            *)
(*   "var"     {{v}}: the field v, HTML-escaped unless it is a SafeString  *)
(*   "raw"     {{{v}}}: the field v, never escaped                         *)
(*   "partial" {{> v}}: the registered partial v                           *)
(*   "bad"     a block that is never closed: the source does not parse     *)
(* Rendered HTML is a sequence of tokens (strings).                        *)

MaxCalls  == 1    \* compiler calls that can be suspended at once
MaxBursts == 2    \* raw file events reported to a listening preview server

DefaultLayout == "default"

Node(k, v) == [k |-> k, v |-> v]

\* Handlebars.Utils.escapeExpression on one token.
Escape(tok) ==
    CASE tok = "<!--" -> "&lt;!--"
      [] tok = "-->"  -> "--&gt;"
      [] tok = "<b>"  -> "&lt;b&gt;"
      [] tok = "A&B"  -> "A&amp;B"
      [] OTHER        -> tok

\* The output of a mustache for a JSON value: nothing for null / undefined.
Shown(v) ==
    CASE v.tag \in {"undef", "null"} -> <<>>
      [] v.tag \in {"arr", "obj"}    -> <<"[object Object]">>
      [] OTHER                       -> <<v.atom>>

\* A compiled template parses when first called (Handlebars compiles
\* lazily), and rendering throws on a partial that is not registered.
Renders(src, parts) ==
    \A i \in 1..Len(src) :
        /\ src[i].k # "bad"
        /\ src[i].k = "partial" =>
              /\ src[i].v \in DOMAIN parts
              /\ \A j \in 1..Len(parts[src[i].v]) :
                    parts[src[i].v][j].k \in {"text", "var", "raw"}

\* template(context): context is the fields of a JS object; body is the
\* SafeString of the "body" field when the context has one (safe = TRUE
\* for new SafeString(html), FALSE for a plain string).
RECURSIVE Expand(_, _, _, _, _)
Expand(src, context, body, safe, parts) ==
    IF src = <<>> THEN <<>>
    ELSE LET n == Head(src)
             isBody == n.v = "body" /\ body # <<>>
             out == CASE n.k = "text" -> <<n.v>>
                      [] n.k = "var" ->
                           IF isBody
                           THEN IF safe THEN body
                                ELSE [j \in 1..Len(body) |-> Escape(body[j])]
                           ELSE LET s == Shown(Get(context, n.v))
                                IN [j \in 1..Len(s) |-> Escape(s[j])]
                      [] n.k = "raw" ->
                           IF isBody THEN body ELSE Shown(Get(context, n.v))
                      [] n.k = "partial" ->
                           Expand(parts[n.v], context, body, safe, <<>>)
                      [] OTHER -> <<>>
         IN out \o Expand(Tail(src), context, body, safe, parts)

\* juice(html): style rules move into the elements they select, and the
\* style element is dropped; everything else is kept.
Juice(html) ==
    LET styled == \E i \in 1..Len(html) : html[i] = "<style>p{}</style>"
        kept   == SelectSeq(html, LAMBDA t : t # "<style>p{}</style>")
    IN [i \in 1..Len(kept) |->
           IF styled /\ kept[i] = "<p>" THEN "<p style>" ELSE kept[i]]

\* \s
IsSpace(t)  == t \in {" ", "\n"}

\* The marker matched without the i flag.
IsMarkerExact(t) == t = "subject:"

\* subject: under the i flag
IsMarker(t) == t \in {"subject:", "Subject:", "SUBJECT:"}

\* String.prototype.trim on a token sequence.
Trim(toks) ==
    LET solid == {i \in 1..Len(toks) : ~IsSpace(toks[i])}
    IN IF solid = {} THEN <<>>
       ELSE SubSeq(toks, CHOOSE i \in solid : \A j \in solid : i <= j,
                         CHOOSE i \in solid : \A j \in solid : j <= i)

\* The captures of /<!--\s*subject:\s*(.+?)\s*-->/i that start at html[i]:
\* <<s, e>> with html[s..e] the group.
Captures(html, i) ==
    IF html[i] # "<!--" THEN {}
    ELSE { se \in (1..Len(html)) \X (1..Len(html)) :
             /\ se[1] <= se[2]
             /\ \E m \in (i+1)..(se[1]-1), c \in (se[2]+1)..Len(html) :
                   /\ IsMarker(html[m])
                   /\ \A j \in (i+1)..(m-1) : IsSpace(html[j])
                   /\ \A j \in (m+1)..(se[1]-1) : IsSpace(html[j])
                   /\ \A j \in se[1]..se[2] : html[j] # "\n"
                   /\ \A j \in (se[2]+1)..(c-1) : IsSpace(html[j])
                   /\ html[c] = "-->" }

\* html.match(...)?.[1]?.trim() ?? null: the leftmost match; within it the
\* greedy \s* takes the latest group start and the lazy .+? the earliest end.
NoSubject == [null |-> TRUE, text |-> <<>>]

ExtractSubject(html) ==
    LET starts == {i \in 1..Len(html) : Captures(html, i) # {}}
    IN IF starts = {} THEN NoSubject
       ELSE LET i  == CHOOSE x \in starts : \A y \in starts : x <= y
                cs == Captures(html, i)
                s  == CHOOSE x \in {c[1] : c \in cs} :
                          \A y \in {c[1] : c \in cs} : y <= x
                e  == CHOOSE x \in {c[2] : c \in {d \in cs : d[1] = s}} :
                          \A y \in {c[2] : c \in {d \in cs : d[1] = s}} : x <= y
            IN [null |-> FALSE, text |-> Trim(SubSeq(html, s, e))]

\* convert(html): the words of the html in order; markup and comments are
\* dropped.
Convert(html) ==
    LET inside(i) == \E a \in 1..i :
                        html[a] = "<!--" /\ \A c \in a..i : html[c] # "-->"
        kept == {i \in 1..Len(html) :
                    /\ ~inside(i)
                    /\ html[i] \notin {"-->", "<p>", "<p style>", "</p>", "<b>",
                                       "<style>p{}</style>", "<html>", "</html>"}}
    IN [k \in 1..Cardinality(kept) |->
           html[CHOOSE i \in kept : Cardinality({j \in kept : j <= i}) = k]]

(* The template tree on disk: root -> [st, ents]. st is "ok", "absent"
   (ENOENT) or "denied" (any other errno); ents maps the names of the files
   present to [ok, src], ok = FALSE for a file that cannot be read. *)
Entry(ok, src)   == [ok |-> ok, src |-> src]
Folder(st, ents) == [st |-> st, ents |-> ents]

\* The order fs.readdir lists file names in.
Listing ==
    << Seg("alt", ".hbs"), Seg("default", ".hbs"), Seg("header", ".hbs"),
       Seg("notes", ".txt"), Seg("welcome", ".hbs") >>

\* Map.set(k, v)
Put(map, k, v) == [x \in DOMAIN map \cup {k} |-> IF x = k THEN v ELSE map[x]]

NoSources == [n \in {} |-> <<>>]

\* The progress of one _loadLayouts / _loadPartials: ph is "dir" (readdir
\* pending), "files" (readFile of Head(todo) pending), "done" or "failed".
Loader(ph, todo) == [ph |-> ph, todo |-> todo]

\* The next await of _loadLayouts / _loadPartials settles: the loader's new
\* progress and the new contents of its map.
LoadNext(root, map, l) ==
    LET d == tree[root] IN
    IF l.ph = "dir"
    THEN LET hbsFiles == SelectSeq(Listing,
                 LAMBDA f : f \in DOMAIN d.ents /\ f.ext = ".hbs")
         IN [map |-> map,
             l |-> CASE d.st = "absent" -> Loader("done", <<>>)
                     [] d.st = "denied" -> Loader("failed", <<>>)
                     [] OTHER -> Loader(IF hbsFiles = <<>> THEN "done" ELSE "files",
                                        hbsFiles)]
    ELSE LET file == Head(l.todo) IN
         CASE d.st = "denied" -> [map |-> map, l |-> Loader("failed", <<>>)]
           [] d.st = "absent" \/ file \notin DOMAIN d.ents ->
                 [map |-> map, l |-> Loader("done", <<>>)]
           [] ~d.ents[file].ok -> [map |-> map, l |-> Loader("failed", <<>>)]
           [] OTHER ->
                 [map |-> Put(map, file.stem, d.ents[file].src),
                  l |-> Loader(IF Tail(l.todo) = <<>> THEN "done" ELSE "files",
                               Tail(l.todo))]

\* CompileOptions: layout and inlineCss, each possibly undefined.
NoOptions == [layout |-> JUndef, inlineCss |-> JUndef]

\* A call of the compiler suspended at an await. kind: "init", "reload" or
\* "compile"; by: "preview" for the reload of the change handler (burst is
\* the number of the burst it handles); pc: "loading" (Promise.all of the two
\* loaders pending), "orphan" (the call has thrown, a loader still runs) or
\* "reading" (readFile of the template pending); solo: no other operation
\* has started since this call did; seen: the email folder as the pending
\* readFile has read it, while its result waits to be delivered; pre: a
\* reload() has begun since; srv: the server whose change handler awaits
\* the call.
Unseen == Folder("unread", [f \in {} |-> Entry(FALSE, <<>>)])

NoCall ==
    [kind |-> "idle", by |-> "", burst |-> 0, name |-> "", data |-> EmptyObj,
     options |-> NoOptions, pc |-> "", lay |-> Loader("done", <<>>),
     par |-> Loader("done", <<>>), solo |-> FALSE, seen |-> Unseen,
     pre |-> FALSE, srv |-> 0]

Loading(kind) ==
    [NoCall EXCEPT !.kind = kind, !.pc = "loading",
                   !.lay = Loader("dir", <<>>), !.par = Loader("dir", <<>>),
                   !.solo = \A j \in DOMAIN calls : calls[j].kind = "idle"]

FreeCalls == {i \in DOMAIN calls : calls[i].kind = "idle"}

\* The slot the next call is suspended in: the lowest free one (0: none).
FirstFree ==
    IF FreeCalls = {} THEN 0
    ELSE CHOOSE i \in FreeCalls : \A j \in FreeCalls : i <= j

\* Another operation starts: the suspended calls are no longer alone.
Joined == [j \in DOMAIN calls |-> [calls[j] EXCEPT !.solo = FALSE]]

\* reload() starts: what a pending readFile has read was read before it.
Overtaken == [j \in DOMAIN calls |->
                 [Joined[j] EXCEPT !.pre = @ \/ calls[j].seen # Unseen]]

NoResult == [html |-> <<>>, text |-> <<>>, subject |-> NoSubject]

\* The last event of the compiler as its caller sees it: a call returning
\* (op "done") or throwing (op "fail", err the class of the error, cause the
\* step that failed, why a template could not be rendered); cached: the
\* template came from this.templates; body: the rendered body; wraps: a
\* layout was applied; pre: the template was read before a reload() began.
NoCobs ==
    [op |-> "none", kind |-> "", name |-> "", data |-> EmptyObj,
     options |-> NoOptions, by |-> "", burst |-> 0, err |-> "none",
     cause |-> "", why |-> "", result |-> NoResult, cached |-> FALSE,
     src |-> <<>>, body |-> <<>>, wraps |-> FALSE, solo |-> FALSE,
     names |-> <<>>, pre |-> FALSE]

Ended(op, r) ==
    [NoCobs EXCEPT !.op = op, !.kind = r.kind, !.name = r.name, !.data = r.data,
                   !.options = r.options, !.by = r.by, !.burst = r.burst,
                   !.solo = r.solo]

\* x ?? y skips x when it is null or undefined.
Nullish(v) == v.tag \in {"undef", "null"}

\* The layout name with data._layout taking precedence over options.layout.
LayoutNameDataFirst(options, data) ==
    IF ~Nullish(Get(Spread(data), "_layout")) THEN Get(Spread(data), "_layout")
    ELSE IF ~Nullish(options.layout) THEN options.layout
         ELSE JStr(DefaultLayout)

\* options.layout ?? data._layout ?? this.config.defaultLayout
LayoutName(options, data) ==
    IF ~Nullish(options.layout) THEN options.layout
    ELSE IF ~Nullish(Get(Spread(data), "_layout"))
         THEN Get(Spread(data), "_layout")
         ELSE JStr(DefaultLayout)

\* compile() from the template on: the render data, the body, the layout,
\* css inlining, text and subject.
Compile(templateName, template, data, options, lays, parts) ==
    LET derived == [k \in {"_templateName", "_year", "_timestamp"} |->
                       CASE k = "_templateName" -> JStr(templateName)
                         [] k = "_year"         -> JNum("this-year")
                         [] OTHER               -> JStr("this-instant")]
        templateData == [k \in DOMAIN Spread(data) \cup DOMAIN derived |->
                            IF k \in DOMAIN derived THEN derived[k]
                            ELSE Spread(data)[k]]
        body == Expand(template, templateData, <<>>, FALSE, parts)
        layoutName == LayoutName(options, data)
        wraps == Truthy(layoutName) /\ layoutName.tag = "str"
                    /\ layoutName.atom \in DOMAIN lays
        wrapped == IF wraps
                   THEN Expand(lays[layoutName.atom], templateData, body, TRUE, parts)
                   ELSE body
        html == IF options.inlineCss # JBool("false") THEN Juice(wrapped)
                ELSE wrapped
        why(src) == IF \E i \in 1..Len(src) : src[i].k = "bad"
                    THEN "parse" ELSE "render"
    IN  IF ~Renders(template, parts)
        THEN [err |-> "raw", cause |-> "body", why |-> why(template),
              result |-> NoResult, body |-> <<>>, wraps |-> FALSE]
        ELSE IF wraps /\ ~Renders(lays[layoutName.atom], parts)
        THEN [err |-> "raw", cause |-> "layout",
              why |-> why(lays[layoutName.atom]), result |-> NoResult,
              body |-> body, wraps |-> TRUE]
        ELSE [err |-> "none", cause |-> "", why |-> "",
              result |-> [html |-> html, text |-> Convert(html),
                          subject |-> ExtractSubject(html)],
              body |-> body, wraps |-> wraps]

\* What the caller of compile gets once the template is at hand.
Outcome(r, template, cached, lays, parts) ==
    LET c == Compile(r.name, template, r.data, r.options, lays, parts) IN
    [Ended(IF c.err = "none" THEN "done" ELSE "fail", r) EXCEPT
        !.err = c.err, !.cause = c.cause, !.why = c.why, !.result = c.result,
        !.cached = cached, !.src = template, !.body = c.body, !.wraps = c.wraps]

\* A broadcast that sends to every client of the set.
RecipientsAll(clients) == [i \in 1..Len(clients) |-> clients[i].id]

\* _broadcast's loop over this.clients, in insertion order: the clients the
\* message is sent to, in the order of the sends.
RECURSIVE Recipients(_)
Recipients(clients) ==
    IF clients = <<>> THEN <<>>
    ELSE (IF Head(clients).readyState = "OPEN" THEN <<Head(clients).id>> ELSE <<>>)
         \o Recipients(Tail(clients))

\* PreviewServer._broadcast of server k, answering burst b: the message as
\* sent, with the clients it went to.
Broadcast(k, type, message, b) ==
    /\ sent' = Append(sent, [type |-> type, message |-> message, burst |-> b,
                             server |-> k, to |-> Recipients(servers[k].clients)])
    /\ UNCHANGED servers

\* _getTemplate that never finds the template in its cache.
LookupMisses(i, r, cs, lays, parts) ==
    /\ calls' = [cs EXCEPT ![i] = [r EXCEPT !.pc = "reading"]]
    /\ cobs' = NoCobs

\* _getTemplate up to its readFile, and the rest of compile on a cache hit.
\* cs: the suspended calls; r: this call.
Lookup(i, r, cs, lays, parts) ==
    IF r.name \in DOMAIN templates
    THEN /\ calls' = [cs EXCEPT ![i] = NoCall]
         /\ cobs' = Outcome(r, templates[r.name], TRUE, lays, parts)
    ELSE /\ calls' = [cs EXCEPT ![i] = [r EXCEPT !.pc = "reading"]]
         /\ cobs' = NoCobs

\* init() without its guard: the loaders start on every call.
InitCallAlways(i) ==
    /\ i \in FreeCalls
    /\ calls' = [Joined EXCEPT ![i] = Loading("init")]
    /\ cobs' = NoCobs
    /\ UNCHANGED <<tree, layouts, partials, templates, initialized>>
    /\ UNCHANGED <<dataVars, sent, servers>>

\* EmailCompiler.init()
InitCall(i) ==
    /\ i \in FreeCalls
    /\ IF initialized
       THEN /\ cobs' = [Ended("done", Loading("init")) EXCEPT !.cached = TRUE]
            /\ UNCHANGED calls
       ELSE /\ calls' = [Joined EXCEPT ![i] = Loading("init")]
            /\ cobs' = NoCobs
    /\ UNCHANGED <<tree, layouts, partials, templates, initialized>>
    /\ UNCHANGED <<dataVars, sent, servers>>

\* reload() that forgets the compiled templates only.
ReloadKeepsLayouts(i, by, b) ==
    /\ i \in FreeCalls
    /\ templates' = NoSources
    /\ calls' = [Joined EXCEPT ![i] = [Loading("reload") EXCEPT !.by = by, !.burst = b]]
    /\ cobs' = NoCobs
    /\ UNCHANGED <<tree, initialized, layouts, partials>>

\* EmailCompiler.reload() up to its await. by = "preview": called by the
\* change handler for burst b.
ReloadCall(i, by, b) ==
    /\ i \in FreeCalls
    /\ layouts' = NoSources
    /\ partials' = NoSources
    /\ templates' = NoSources
    /\ calls' = [Overtaken EXCEPT ![i] = [Loading("reload") EXCEPT !.by = by, !.burst = b]]
    /\ cobs' = NoCobs
    /\ UNCHANGED <<tree, initialized>>

\* EmailCompiler.compile(templateName, data, options) up to its first await
\* that has to wait.
CompileCall(i, templateName, data, options) ==
    LET r == [Loading("compile") EXCEPT !.name = templateName, !.data = data,
                                        !.options = options]
    IN  /\ i \in FreeCalls
        /\ IF initialized
           THEN Lookup(i, r, Joined, layouts, partials)
           ELSE /\ calls' = [Joined EXCEPT ![i] = r]
                /\ cobs' = NoCobs
        /\ UNCHANGED <<tree, layouts, partials, templates, initialized>>
        /\ UNCHANGED <<dataVars, sent, servers>>

\* A change handler that broadcasts without clearing the data cache.
HandlerAnnouncesOnly(r) ==
    IF r.by = "preview"
    THEN Broadcast(r.srv, "reload", "", r.burst) /\ UNCHANGED dataVars
    ELSE UNCHANGED <<dataVars, sent, servers>>

\* The change handler after `await this.compiler.reload()` has resolved.
HandlerResumes(r) ==
    IF r.by = "preview"
    THEN ClearCache /\ Broadcast(r.srv, "reload", "", r.burst)
    ELSE UNCHANGED <<dataVars, sent, servers>>

\* A change handler that swallows the failure.
HandlerSwallows(r, message) == UNCHANGED <<dataVars, sent, servers>>

\* The change handler's catch block.
HandlerCatches(r, message) ==
    IF r.by = "preview"
    THEN Broadcast(r.srv, "error", message, r.burst) /\ UNCHANGED dataVars
    ELSE UNCHANGED <<dataVars, sent, servers>>

\* An await of a loader of call i settles, with everything that follows it
\* before the next await.
LoadStep(i, root) ==
    LET r     == calls[i]
        isLay == root = "layouts"
        step  == LoadNext(root, IF isLay THEN layouts ELSE partials,
                                IF isLay THEN r.lay ELSE r.par)
        lays  == IF isLay THEN step.map ELSE layouts
        parts == IF isLay THEN partials ELSE step.map
        r2    == IF isLay THEN [r EXCEPT !.lay = step.l] ELSE [r EXCEPT !.par = step.l]
        running == {r2.lay.ph, r2.par.ph} \cap {"dir", "files"} # {}
    IN  /\ r.pc \in {"loading", "orphan"}
        /\ (IF isLay THEN r.lay ELSE r.par).ph \in {"dir", "files"}
        /\ layouts' = lays
        /\ partials' = parts
        /\ UNCHANGED <<tree, templates>>
        /\ CASE r.pc = "orphan" ->
                  /\ calls' = [calls EXCEPT ![i] = IF running THEN r2 ELSE NoCall]
                  /\ cobs' = NoCobs
                  /\ UNCHANGED initialized
                  /\ UNCHANGED <<dataVars, sent, servers>>
             [] r.pc = "loading" /\ step.l.ph = "failed" ->
                  /\ calls' = [calls EXCEPT ![i] =
                                 IF running THEN [r2 EXCEPT !.pc = "orphan"] ELSE NoCall]
                  /\ cobs' = [Ended("fail", r) EXCEPT !.err = "raw", !.cause = root]
                  /\ UNCHANGED initialized
                  /\ HandlerCatches(r, root)
             [] r.pc = "loading" /\ step.l.ph # "failed" /\ ~running ->
                  CASE r.kind = "compile" ->
                          /\ initialized' = TRUE
                          /\ Lookup(i, r2, calls, lays, parts)
                          /\ UNCHANGED <<dataVars, sent, servers>>
                    [] r.kind = "init" ->
                          /\ initialized' = TRUE
                          /\ calls' = [calls EXCEPT ![i] = NoCall]
                          /\ cobs' = Ended("done", r)
                          /\ UNCHANGED <<dataVars, sent, servers>>
                    [] OTHER ->
                          /\ calls' = [calls EXCEPT ![i] = NoCall]
                          /\ cobs' = Ended("done", r)
                          /\ UNCHANGED initialized
                          /\ HandlerResumes(r)
             [] OTHER ->
                  /\ calls' = [calls EXCEPT ![i] = r2]
                  /\ cobs' = NoCobs
                  /\ UNCHANGED initialized
                  /\ UNCHANGED <<dataVars, sent, servers>>

\* _getTemplate wrapping every read failure, absence too, in one class.
ReadFailureWrapped(d, file) ==
    IF d.st = "ok" /\ file \in DOMAIN d.ents /\ d.ents[file].ok
    THEN [err |-> "none", cause |-> ""]
    ELSE [err |-> "CompilationError", cause |-> "read"]

\* The error _getTemplate throws for the outcome of its readFile: none when
\* the file was read.
ReadFailure(d, file) ==
    CASE d.st = "absent" \/ (d.st = "ok" /\ file \notin DOMAIN d.ents) ->
            [err |-> "TemplateNotFoundError", cause |-> "absent"]
      [] d.st = "denied" \/ ~d.ents[file].ok ->
            [err |-> "CompilationError", cause |-> "read"]
      [] OTHER -> [err |-> "none", cause |-> ""]

\* The readFile of call i has read the file; its promise is not yet
\* resolved, and other callbacks run before the call is resumed.
ReadContent(i) ==
    /\ calls[i].pc = "reading"
    /\ calls[i].seen = Unseen
    /\ calls' = [calls EXCEPT ![i].seen = tree["emails"]]
    /\ cobs' = NoCobs
    /\ UNCHANGED <<tree, layouts, partials, templates, initialized>>
    /\ UNCHANGED <<dataVars, sent, servers>>

\* _getTemplate's readFile of call i settles, with what it has read or with
\* the file as it is now, and compile runs to its end.
ReadTemplate(i) ==
    LET r    == calls[i]
        d    == IF r.seen = Unseen THEN tree["emails"] ELSE r.seen
        file == Seg(r.name, ".hbs")
    IN  /\ r.pc = "reading"
        /\ calls' = [calls EXCEPT ![i] = NoCall]
        /\ UNCHANGED <<tree, layouts, partials, initialized>>
        /\ UNCHANGED <<dataVars, sent, servers>>
        /\ IF ReadFailure(d, file).err # "none"
           THEN /\ cobs' = [Ended("fail", r) EXCEPT
                               !.err = ReadFailure(d, file).err,
                               !.cause = ReadFailure(d, file).cause]
                /\ UNCHANGED templates
           ELSE /\ templates' = Put(templates, r.name, d.ents[file].src)
                /\ cobs' = [Outcome(r, d.ents[file].src, FALSE, layouts, partials)
                               EXCEPT !.pre = r.pre]

\* A file of the template tree is written (entry) or removed.
WriteTemplate(root, file, entry) ==
    /\ tree[root].st = "ok"
    /\ tree' = [tree EXCEPT ![root].ents = Put(@, file, entry)]
    /\ calls' = Joined
    /\ cobs' = NoCobs
    /\ UNCHANGED <<layouts, partials, templates, initialized>>
    /\ UNCHANGED <<dataVars, sent, servers>>

RemoveTemplate(root, file) ==
    /\ tree[root].st = "ok"
    /\ file \in DOMAIN tree[root].ents
    /\ tree' = [tree EXCEPT ![root].ents = [f \in DOMAIN @ \ {file} |-> @[f]]]
    /\ calls' = Joined
    /\ cobs' = NoCobs
    /\ UNCHANGED <<layouts, partials, templates, initialized>>
    /\ UNCHANGED <<dataVars, sent, servers>>

\* listTemplates without its filter: a name for every file.
ListOfAll(d) ==
    LET found == SelectSeq(Listing, LAMBDA f : f \in DOMAIN d.ents)
    IN  [k \in 1..Len(found) |-> found[k].stem]

\* The array listTemplates() builds from the readdir of the folder d: the
\* names ending in .hbs, in readdir's order, each without the extension.
ListOf(d) ==
    LET found == SelectSeq(Listing, LAMBDA f : f \in DOMAIN d.ents /\ f.ext = ".hbs")
    IN  [k \in 1..Len(found) |-> found[k].stem]

\* EmailCompiler.listTemplates(), when its readdir settles.
ListTemplates ==
    LET d == tree["emails"]
        r == [NoCall EXCEPT !.kind = "list"]
    IN  /\ cobs' = CASE d.st = "absent" -> Ended("done", r)
                     [] d.st = "denied" ->
                           [Ended("fail", r) EXCEPT !.err = "raw", !.cause = "emails"]
                     [] OTHER -> [Ended("done", r) EXCEPT !.names = ListOf(d)]
        /\ UNCHANGED <<tree, layouts, partials, templates, initialized, calls>>
        /\ UNCHANGED <<dataVars, sent, servers>>

\* The slot the k-th of several calls made in a row is suspended in.
FreeSlot(k) ==
    CHOOSE i \in FreeCalls : Cardinality({j \in FreeCalls : j < i}) = k - 1

\* The change handlers of servers 1..n call reload() for burst b, one after
\* the other, each up to its await: ReloadCall n times.
ReloadCalls(n, b) ==
    IF n = 0 THEN UNCHANGED storeVars
    ELSE /\ layouts' = NoSources
         /\ partials' = NoSources
         /\ templates' = NoSources
         /\ calls' = [j \in DOMAIN calls |->
                         IF \E k \in 1..n : j = FreeSlot(k)
                         THEN [Loading("reload") EXCEPT
                                  !.by = "preview", !.burst = b,
                                  !.srv = CHOOSE k \in 1..n : j = FreeSlot(k),
                                  !.solo = @ /\ n = 1]
                         ELSE Overtaken[j]]
         /\ cobs' = NoCobs
         /\ UNCHANGED <<tree, initialized>>

\* A change handler that reloads the compiler for every burst.
EmitReloadsAlways(t) ==
    /\ EmitChanges(t)
    /\ Cardinality(FreeCalls) >= Len(servers)
    /\ ReloadCalls(Len(servers), emitCount')
    /\ UNCHANGED <<dataVars, sent, servers>>

\* The debounce timer t fires: _emitChanges, and the 'change' handler of
\* every server that has registered one (none is ever removed), in the
\* order of registration, each up to its first await.
EmitToPreview(t) ==
    LET n == Len(servers) IN
    /\ EmitChanges(t)
    /\ IF burst'.needsFullReload
       THEN /\ Cardinality(FreeCalls) >= n
            /\ ReloadCalls(n, emitCount')
            /\ UNCHANGED <<dataVars, sent, servers>>
       ELSE /\ IF n = 0 THEN UNCHANGED dataVars ELSE ClearCache
            /\ sent' = sent \o [k \in 1..n |->
                                   [type |-> "reload", message |-> "",
                                    burst |-> emitCount', server |-> k,
                                    to |-> Recipients(servers[k].clients)]]
            /\ UNCHANGED <<storeVars, servers>>

\* A PreviewServer after start(): no client yet; wss is "open", "stopping"
\* (stop() awaits the watcher) or "closed".
Listening == [clients |-> <<>>, wss |-> "open"]

\* The server that listens, if any: the last one started.
Current == Len(servers)

\* The sockets in the client set of some server.
Attached ==
    UNION {{servers[k].clients[i].id : i \in 1..Len(servers[k].clients)} :
              k \in 1..Len(servers)}

\* EmailBuilder.startPreview() on a builder whose compiler is initialized
\* and whose previous server, if any, has stopped: a new PreviewServer on
\* the shared watcher; start() registers a 'change' and an 'error' listener
\* on it and starts it, init() returns at once, and the server listens.
StartPreview ==
    /\ initialized
    /\ Len(servers) < MaxServers
    /\ \A k \in 1..Len(servers) : servers[k].wss = "closed"
    /\ servers' = Append(servers, Listening)
    /\ Starts
    /\ listeners' = listeners + 1
    /\ UNCHANGED <<dataVars, now, mergeVars, storeVars, sent>>

\* EmailBuilder.stopPreview() up to `await this.watcher.stop()`; without a
\* watcher to close it runs on to wss.close().
StopPreviewCall ==
    /\ Current > 0
    /\ servers[Current].wss = "open"
    /\ StopCall
    /\ servers' = [servers EXCEPT ![Current].wss =
                       IF watching = "on" THEN "stopping" ELSE "closed"]
    /\ UNCHANGED <<dataVars, now, mergeVars, storeVars, sent>>

\* PreviewServer.stop() after the watcher has stopped: wss.close() and
\* server.close(). The listeners stay on the watcher, the clients in the set.
StopPreviewResume ==
    /\ Current > 0
    /\ servers[Current].wss = "stopping"
    /\ StopResume
    /\ servers' = [servers EXCEPT ![Current].wss = "closed"]
    /\ UNCHANGED <<dataVars, now, mergeVars, storeVars, sent>>

\* The 'connection' handler of the listening server: this.clients.add(ws).
Connect(c) ==
    /\ Current > 0
    /\ servers[Current].wss # "closed"
    /\ c \notin Attached
    /\ servers' = [servers EXCEPT ![Current].clients =
                       Append(@, [id |-> c, readyState |-> "OPEN"])]
    /\ UNCHANGED <<dataVars, now, mergeVars, watchVars, storeVars, sent>>

\* The socket of client c starts to close: its readyState leaves OPEN, and
\* its 'close' event is still to come.
SocketCloses(c) ==
    /\ \E k \in 1..Len(servers) :
          \E i \in 1..Len(servers[k].clients) :
             /\ servers[k].clients[i] = [id |-> c, readyState |-> "OPEN"]
             /\ servers' = [servers EXCEPT ![k].clients[i].readyState = "CLOSING"]
    /\ UNCHANGED <<dataVars, now, mergeVars, watchVars, storeVars, sent>>

\* The 'close' handler of client c: this.clients.delete(ws).
CloseEvent(c) ==
    /\ \E k \in 1..Len(servers) :
          /\ \E i \in 1..Len(servers[k].clients) :
                servers[k].clients[i] = [id |-> c, readyState |-> "CLOSING"]
          /\ servers' = [servers EXCEPT ![k].clients =
                             SelectSeq(@, LAMBDA x : x.id # c)]
    /\ UNCHANGED <<dataVars, now, mergeVars, watchVars, storeVars, sent>>

\* new EmailCompiler(config): empty maps, not initialized, nothing suspended.
EmailCompilerNew ==
    /\ layouts = NoSources
    /\ partials = NoSources
    /\ templates = NoSources
    /\ initialized = FALSE
    /\ calls = [i \in 1..MaxCalls |-> NoCall]
    /\ cobs = NoCobs

\* A builder on which no preview server was started.
PreviewServerNew == sent = <<>> /\ servers = <<>>

\* No template directory exists.
NoTree == [root \in {"layouts", "partials", "emails"} |-> Folder("absent", [f \in {} |-> Entry(FALSE, <<>>)])]

-----------------------------------------------------------------------------
(* The clock                                                               *)

\* Time passes, up to the given limit.
Tick(limit) ==
    /\ now < limit
    /\ now' = now + 1
    /\ UNCHANGED <<dataVars, mergeVars, watchVars, storeVars, sent, servers>>

-----------------------------------------------------------------------------
(* Initial states and specifications                                       *)

\* The Config the components are constructed with.
ConfigOf(enabled, type, endpoint) ==
    [cacheEnabled |-> enabled, ttl |-> Ttl, sourceType |-> type,
     endpoint |-> endpoint, debounce |-> Debounce]

\* config.ts defaults: json source, no endpoint, caching enabled.
DefaultConfig == ConfigOf(TRUE, "json", "none")

\* new DataLoader(config): empty maps, nothing suspended.
DataLoaderNew ==
    /\ cache = NoEntries
    /\ cacheTimestamps = NoStamps
    /\ inflight = [i \in 1..MaxInflight |-> Idle]
    /\ obs = NoObs
    /\ clearedSince = FALSE

\* new FileWatcher(config): no watcher, no timer, nothing pending.
FileWatcherNew ==
    /\ watching = "off"
    /\ debounceTimer = NoTimer
    /\ timers = {}
    /\ nextTimerId = 1
    /\ pendingChanges = {}
    /\ burst = NoBurst
    /\ window = {}
    /\ lastEventAt = 0
    /\ emitCount = 0
    /\ eventCount = 0
    /\ wobs = NoStep
    /\ observers = 0
    /\ listeners = 0

NoFiles == [f \in Names \cup {SampleFile} |-> Absent]

Overrides == {JObj([k \in {"title"} |-> JStr("override")])}

\* A step of the DataLoader leaves the clock and the other components alone.
DataStep(A) == A /\ UNCHANGED <<now, mergeVars, watchVars, storeVars, sent, servers>>

(* The data cache over time: json source, caching on or off, one template
   loaded under two parameter sets while its data file changes. *)
CacheNames == {"welcome"}

InitCache ==
    /\ config \in {ConfigOf(e, "json", "none") : e \in BOOLEAN}
    /\ files \in {[NoFiles EXCEPT !["welcome"] = Holding(d)] : d \in SpecificDocs}
    /\ now = 0
    /\ DataLoaderNew /\ MergeIdle /\ FileWatcherNew
    /\ EmailCompilerNew /\ PreviewServerNew /\ tree = NoTree

NextCache ==
    \/ \E n \in CacheNames, p \in ParamSets : DataStep(LoadCall(n, p, FALSE, EmptyObj))
    \/ \E n \in CacheNames, o \in Overrides : DataStep(LoadCall(n, NoParams, TRUE, o))
    \/ \E i \in 1..MaxInflight : DataStep(ReadSpecific(i))
    \/ DataStep(ClearCache)
    \/ \E n \in CacheNames, d \in SpecificDocs : DataStep(WriteFile(n, Holding(d)))
    \/ Tick(Ttl + 1)

SpecCache == InitCache /\ [][NextCache]_vars

(* The source chain: every source configuration, with the per-template file
   and the shared file in every state; the cache is enabled. *)
SourceConfigs ==
    { ConfigOf(TRUE, "json", "none"), ConfigOf(TRUE, "database", "none"),
      ConfigOf(TRUE, "api", "none"), ConfigOf(TRUE, "api", "malformed"),
      ConfigOf(TRUE, "api", "valid") }

SpecificStates == {Absent, BadJson, Unreadable, Holding(Doc("v1"))}
SampleStates   == {Absent, BadJson, Unreadable} \cup {Holding(d) : d \in SampleDocs}

InitSource ==
    /\ config \in SourceConfigs
    /\ files \in {[NoFiles EXCEPT !["welcome"] = f, ![SampleFile] = g] :
                     f \in SpecificStates, g \in SampleStates}
    /\ now = 0
    /\ DataLoaderNew /\ MergeIdle /\ FileWatcherNew
    /\ EmailCompilerNew /\ PreviewServerNew /\ tree = NoTree

NextSource ==
    \/ DataStep(LoadCall("welcome", NoParams, FALSE, EmptyObj))
    \/ \E i \in 1..MaxInflight, out \in ApiOutcomes, body \in ApiDocs :
          DataStep(ApiSettle(i, out, body))
    \/ \E i \in 1..MaxInflight, parsed \in BOOLEAN : DataStep(ApiBody(i, parsed))
    \/ \E i \in 1..MaxInflight : DataStep(ReadSpecific(i))
    \/ \E i \in 1..MaxInflight : DataStep(ReadSample(i))
    \/ DataStep(ClearCache)
    \/ \E f \in SpecificStates : DataStep(WriteFile("welcome", f))
    \/ \E g \in SampleStates : DataStep(WriteFile(SampleFile, g))

SpecSource == InitSource /\ [][NextSource]_vars

(* The source chain when timers fire and file reads complete: the abort
   timer of a pending fetch does fire, and every readFile settles. Nothing
   makes the API answer, or finish an answer it has begun. *)
SpecSourceFair ==
    /\ SpecSource
    /\ \A i \in 1..MaxInflight :
          /\ WF_vars(\E body \in ApiDocs : DataStep(ApiSettle(i, "timeout", body)))
          /\ WF_vars(DataStep(ReadSpecific(i)))
          /\ WF_vars(DataStep(ReadSample(i)))

(* _deepMerge on every pair of sample base data and overrides. *)
InitMerge ==
    /\ mBase \in BaseSamples
    /\ mOver \in OverrideSamples
    /\ mResult = JUndef
    /\ mDone = FALSE
    /\ config = DefaultConfig
    /\ files = NoFiles
    /\ now = 0
    /\ DataLoaderNew /\ FileWatcherNew
    /\ EmailCompilerNew /\ PreviewServerNew /\ tree = NoTree

NextMerge == ApplyMerge

SpecMerge == InitMerge /\ [][NextMerge]_vars

(* The watcher: started and stopped at will, raw events and timer expiries
   interleaved with the clock. *)
WatchStep(A) == A /\ UNCHANGED <<dataVars, now, mergeVars, storeVars, sent, servers>>

InitWatcher ==
    /\ config = DefaultConfig
    /\ files = NoFiles
    /\ now = 0
    /\ DataLoaderNew /\ MergeIdle /\ FileWatcherNew
    /\ EmailCompilerNew /\ PreviewServerNew /\ tree = NoTree

NextWatcher ==
    \/ WatchStep(Start)
    \/ WatchStep(StopCall)
    \/ WatchStep(StopResume)
    \/ \E e \in RawEvents : WatchStep(HandleChange(e.event, e.filePath))
    \/ \E t \in timers : WatchStep(EmitChanges(t))
    \/ Tick(2 * Debounce + 1)

SpecWatcher == InitWatcher /\ [][NextWatcher]_vars

(* A started watcher whose observer reports errors between raw events, with
   and without an 'error' listener. *)
NextObserver ==
    \/ WatchStep(Start)
    \/ WatchStep(On)
    \/ WatchStep(ObserverError)
    \/ \E filePath \in {LayoutMain, EmailWelcome} :
          /\ eventCount < MaxBursts
          /\ WatchStep(HandleChange("change", filePath))
    \/ \E t \in timers : WatchStep(EmitChanges(t))
    \/ Tick(2 * Debounce + 1)

SpecObserver == InitWatcher /\ [][NextObserver]_vars

(* compile() on an initialized compiler: every sample body against every
   sample data and options, with no, one or two layouts loaded and the
   template compiled before. *)
StoreStep(A) == A /\ UNCHANGED <<now, mergeVars, watchVars>>

\* The source of literal output, one text node for each token.
Lits(toks) == [i \in 1..Len(toks) |-> Node("text", toks[i])]

DefaultSrc == Lits(<<"<html>">>) \o <<Node("raw", "body")>> \o Lits(<<"</html>">>)
HeaderSrc  == Lits(<<"<b>", "Acme">>)

\* The tree the maps lays and parts were loaded from, with one email body.
TreeOf(lays, parts, body) ==
    [root \in {"layouts", "partials", "emails"} |->
        CASE root = "layouts" ->
                Folder("ok", [f \in {Seg(n, ".hbs") : n \in DOMAIN lays} |->
                                 Entry(TRUE, lays[f.stem])])
          [] root = "partials" ->
                Folder("ok", [f \in {Seg(n, ".hbs") : n \in DOMAIN parts} |->
                                 Entry(TRUE, parts[f.stem])])
          [] OTHER -> Folder("ok", [f \in {Seg("welcome", ".hbs")} |-> body])]

InitRender ==
    LET AltSrc == Lits(<<"<!--", "Subject:", "Alt", "-->">>) \o <<Node("var", "body")>>
        BodySamples ==
            { Lits(<<"<p>", "Hi">>) \o <<Node("var", "name")>> \o Lits(<<"</p>">>),
              Lits(<<"<!--", " ", "subject:", " ", "Hello", " ">>)
                  \o <<Node("var", "name")>> \o Lits(<<" ", "-->", "<p>">>)
                  \o <<Node("var", "_year")>>,
              Lits(<<"<!--", "note:", "x", "-->", "<!--", "\n", "SUBJECT:", " ",
                     " ", "Sale", "-->", "<!--", "subject:", "Other", "-->">>),
              Lits(<<"<!--", "todo", "subject:", "x", "-->", "subject:", "Plain">>),
              <<Node("var", "_templateName"), Node("var", "_year"),
                Node("var", "_timestamp")>>,
              Lits(<<"<style>p{}</style>", "<p>">>)
                  \o <<Node("raw", "name"), Node("partial", "header")>> }
        LayoutSamples ==
            { NoSources,
              [n \in {"default"} |-> DefaultSrc],
              [n \in {"default", "alt"} |-> IF n = "alt" THEN AltSrc ELSE DefaultSrc] }
    IN  /\ config = DefaultConfig
        /\ files = NoFiles
        /\ now = 0
        /\ DataLoaderNew /\ MergeIdle /\ FileWatcherNew /\ PreviewServerNew
        /\ layouts \in LayoutSamples
        /\ partials = [n \in {"header"} |-> HeaderSrc]
        /\ \E body \in BodySamples :
              /\ tree = TreeOf(layouts, partials, Entry(TRUE, body))
              /\ templates = [n \in {"welcome"} |-> body]
        /\ initialized = TRUE
        /\ calls = [i \in 1..MaxCalls |-> NoCall]
        /\ cobs = NoCobs

NextRender ==
    LET RenderData ==
            { EmptyObj,
              JObj([k \in {"name"} |-> JStr("Ann")]),
              JObj([k \in {"name"} |-> JStr("A&B")]),
              JObj([k \in {"_layout"} |-> JStr("alt")]),
              JObj([k \in {"name", "_layout"} |->
                       IF k = "name" THEN JStr("Ann") ELSE JStr("ghost")]),
              JObj([k \in {"_templateName", "_year", "_timestamp"} |->
                       CASE k = "_templateName" -> JStr("mine")
                         [] k = "_year" -> JNum("1999")
                         [] OTHER -> JStr("then")]) }
        RenderOptions ==
            { NoOptions,
              [NoOptions EXCEPT !.layout = JStr("alt")],
              [NoOptions EXCEPT !.layout = JStr("ghost")],
              [NoOptions EXCEPT !.layout = JStr("")],
              [NoOptions EXCEPT !.inlineCss = JBool("false")] }
    IN  \E data \in RenderData, options \in RenderOptions :
            StoreStep(CompileCall(FirstFree, "welcome", data, options))

SpecRender == InitRender /\ [][NextRender]_vars

(* The compiler over time: init, reload and compile of one template
   suspended at their awaits, over template directories that are missing,
   unreadable or hold good and bad files, while files are written and
   removed. *)
EmailEntries ==
    { Entry(FALSE, <<>>),
      Entry(TRUE, Lits(<<"v1">>)),
      Entry(TRUE, <<Node("bad", "{{#if")>>),
      Entry(TRUE, <<Node("partial", "header")>> \o Lits(<<"v2">>)) }

InitStore ==
    LET none == [f \in {} |-> Entry(FALSE, <<>>)]
        LayoutFolders ==
            { Folder("absent", none), Folder("denied", none),
              Folder("ok", [f \in {Seg("default", ".hbs"), Seg("notes", ".txt")} |->
                               Entry(TRUE, DefaultSrc)]),
              Folder("ok", [f \in {Seg("default", ".hbs")} |->
                               Entry(TRUE, <<Node("bad", "{{#if")>>)]),
              Folder("ok", [f \in {Seg("alt", ".hbs"), Seg("default", ".hbs")} |->
                               IF f.stem = "alt" THEN Entry(TRUE, DefaultSrc)
                               ELSE Entry(FALSE, <<>>)]) }
        PartialFolders ==
            { Folder("absent", none),
              Folder("ok", [f \in {Seg("header", ".hbs")} |-> Entry(TRUE, HeaderSrc)]) }
        EmailFolders ==
            { Folder("absent", none), Folder("ok", none) } \cup
            { Folder("ok", [f \in {Seg("welcome", ".hbs")} |-> e]) : e \in EmailEntries }
    IN  /\ config = DefaultConfig
        /\ files = NoFiles
        /\ now = 0
        /\ DataLoaderNew /\ MergeIdle /\ FileWatcherNew /\ PreviewServerNew
        /\ EmailCompilerNew
        /\ tree \in { [root \in {"layouts", "partials", "emails"} |->
                          CASE root = "layouts" -> l [] root = "partials" -> p
                            [] OTHER -> e] :
                      l \in LayoutFolders, p \in PartialFolders, e \in EmailFolders }

NextStore ==
    \/ StoreStep(InitCall(FirstFree))
    \/ StoreStep(ReloadCall(FirstFree, "api", 0) /\ UNCHANGED <<dataVars, sent, servers>>)
    \/ StoreStep(CompileCall(FirstFree, "welcome", EmptyObj, NoOptions))
    \/ \E i \in 1..MaxCalls, root \in {"layouts", "partials"} : StoreStep(LoadStep(i, root))
    \/ \E i \in 1..MaxCalls : StoreStep(ReadTemplate(i))
    \/ \E e \in EmailEntries :
          StoreStep(WriteTemplate("emails", Seg("welcome", ".hbs"), e))
    \/ \E root \in {"layouts", "emails"}, f \in {Seg("default", ".hbs"), Seg("welcome", ".hbs")} :
          StoreStep(RemoveTemplate(root, f))

SpecStore == InitStore /\ [][NextStore]_vars

(* An initialized compiler whose email root is absent or holds welcome.hbs:
   two compile() calls of the template that overlap and listTemplates(),
   while files of the root are written and removed and the compiler is
   reloaded. *)
InitOverlap ==
    /\ config = DefaultConfig
    /\ files = NoFiles
    /\ now = 0
    /\ DataLoaderNew /\ MergeIdle /\ FileWatcherNew /\ PreviewServerNew
    /\ layouts = [n \in {"default"} |-> DefaultSrc]
    /\ partials = NoSources
    /\ templates = NoSources
    /\ \E st \in {"ok", "absent"} :
          tree = [TreeOf(layouts, partials, Entry(TRUE, Lits(<<"v1">>)))
                     EXCEPT !["emails"].st = st]
    /\ initialized = TRUE
    /\ calls = [i \in 1..(MaxCalls + 1) |-> NoCall]
    /\ cobs = NoCobs

NextOverlap ==
    \/ StoreStep(InitCall(FirstFree))
    \/ StoreStep(CompileCall(FirstFree, "welcome", EmptyObj, NoOptions))
    \/ StoreStep(ReloadCall(FirstFree, "api", 0) /\ UNCHANGED <<dataVars, sent, servers>>)
    \/ \E i \in DOMAIN calls, root \in {"layouts", "partials"} : StoreStep(LoadStep(i, root))
    \/ \E i \in DOMAIN calls : StoreStep(ReadContent(i))
    \/ \E i \in DOMAIN calls : StoreStep(ReadTemplate(i))
    \/ StoreStep(ListTemplates)
    \/ \E v \in {"v1", "v2"} :
          StoreStep(WriteTemplate("emails", Seg("welcome", ".hbs"), Entry(TRUE, Lits(<<v>>))))
    \/ \E f \in {Seg("alt", ".hbs"), Seg("notes", ".txt")} :
          StoreStep(WriteTemplate("emails", f, Entry(TRUE, Lits(<<"v1">>))))
    \/ StoreStep(RemoveTemplate("emails", Seg("welcome", ".hbs")))

SpecOverlap == InitOverlap /\ [][NextOverlap]_vars

(* The preview server listening: its change handler registered on a started
   watcher, the compiler initialized from a tree with one layout and one
   email body. Layout and email files change and are reported, bursts are
   handled, and templates are compiled and data loaded in between. *)
InitPreview ==
    /\ config = DefaultConfig
    /\ files = [NoFiles EXCEPT !["welcome"] = Holding(Doc("v1"))]
    /\ now = 0
    /\ DataLoaderNew /\ MergeIdle
    /\ sent = <<>> /\ servers = <<Listening>>
    /\ watching = "on"
    /\ debounceTimer = NoTimer /\ timers = {} /\ nextTimerId = 1
    /\ pendingChanges = {} /\ burst = NoBurst /\ window = {}
    /\ lastEventAt = 0 /\ emitCount = 0 /\ eventCount = 0 /\ wobs = NoStep
    /\ observers = 1 /\ listeners = 1
    /\ layouts = [n \in {"default"} |-> DefaultSrc]
    /\ partials = NoSources
    /\ templates = NoSources
    /\ tree = TreeOf(layouts, partials, Entry(TRUE, Lits(<<"v1">>)))
    /\ initialized = TRUE
    /\ calls = [i \in 1..MaxCalls |-> NoCall]
    /\ cobs = NoCobs

\* The parts of NextPreview that every preview scenario has: raw events,
\* expiring timers, the clock, the loaders of a reload, and the default
\* layout becoming unreadable and readable again.
PreviewCore ==
    \/ \E filePath \in {LayoutMain, EmailWelcome} :
          /\ eventCount < MaxBursts
          /\ WatchStep(HandleChange("change", filePath))
    \/ \E t \in timers : EmitToPreview(t) /\ UNCHANGED <<now, mergeVars>>
    \/ Tick(2 * Debounce + 1)
    \/ \E i \in 1..MaxCalls, root \in {"layouts", "partials"} : StoreStep(LoadStep(i, root))
    \/ \E e \in {Entry(FALSE, <<>>), Entry(TRUE, DefaultSrc)} :
          StoreStep(WriteTemplate("layouts", Seg("default", ".hbs"), e))

\* Bursts handled while the email body is edited and compiled.
NextPreview ==
    \/ PreviewCore
    \/ \E v \in {"v1", "v2"} :
          StoreStep(WriteTemplate("emails", Seg("welcome", ".hbs"), Entry(TRUE, Lits(<<v>>))))
    \/ StoreStep(CompileCall(FirstFree, "welcome", EmptyObj, NoOptions))
    \/ \E i \in 1..MaxCalls : StoreStep(ReadTemplate(i))

\* Bursts handled while data is loaded, one load at a time.
NextPreviewData ==
    \/ PreviewCore
    \/ /\ FreeSlots = 1..MaxInflight
       /\ DataStep(LoadCall("welcome", NoParams, FALSE, EmptyObj))
    \/ \E i \in 1..MaxInflight : DataStep(ReadSpecific(i))

SpecPreviewData == InitPreview /\ [][NextPreviewData]_vars

SpecPreview == InitPreview /\ [][NextPreview]_vars

\* Email files change and the bursts are handled while clients connect to
\* the server and close.
NextClients ==
    \/ /\ eventCount < MaxBursts
       /\ WatchStep(HandleChange("change", EmailWelcome))
    \/ \E t \in timers : EmitToPreview(t) /\ UNCHANGED <<now, mergeVars>>
    \/ Tick(2 * Debounce + 1)
    \/ \E c \in 1..MaxClients : Connect(c)
    \/ \E c \in 1..MaxClients : SocketCloses(c)
    \/ \E c \in 1..MaxClients : CloseEvent(c)

SpecClients == InitPreview /\ [][NextClients]_vars

\* The preview is stopped and started again on the same builder while
\* email files change, a client connects and the observer reports errors.
NextServers ==
    \/ /\ eventCount < MaxBursts
       /\ WatchStep(HandleChange("change", EmailWelcome))
    \/ \E t \in timers : EmitToPreview(t) /\ UNCHANGED <<now, mergeVars>>
    \/ Tick(2 * Debounce + 1)
    \/ StopPreviewCall
    \/ StopPreviewResume
    \/ StartPreview
    \/ Connect(1)
    \/ WatchStep(ObserverError)

SpecServers == InitPreview /\ [][NextServers]_vars

-----------------------------------------------------------------------------
(* Properties of the data cache (SpecCache)                                *)

IsCall == obs.op \in {"hit", "miss"}
ObsKey == <<obs.name, obs.params>>

\* C1: with caching enabled, a load(name, params) issued while an entry for
\* its key exists with now - insertedAt < ttl returns exactly the stored
\* value and reads no source: it returns at once, no call is suspended on a
\* file or on the API for it.
C1_CacheHitReturnsStored ==
    (IsCall /\ obs.validBefore) =>
        /\ obs.op = "hit"
        /\ obs.reads = {}
        /\ obs.data = obs.stored
        /\ ~obs.merge => obs.ret = obs.stored

\* C1 witness: a plain load answered from an entry in its last valid tick,
\* while the data file already holds something else.
C1_Witness ==
    /\ obs.op = "hit" /\ ~obs.merge /\ obs.validBefore
    /\ obs.age = config.ttl - 1
    /\ obs.ret = obs.stored
    /\ files[obs.name] # Holding(obs.stored)

\* C2: an entry is treated as absent exactly when caching is disabled or
\* now - insertedAt >= ttl: a call that finds an entry is a hit iff caching is
\* enabled and the entry is younger than ttl (T-1 hits, T and T+1 miss); a miss
\* reads the source and, caching enabled, overwrites the entry with the fresh
\* value and insertedAt = now; with caching disabled nothing is ever cached
\* and no call is a hit.
C2_ExpiryExactlyAtTtl ==
    /\ (IsCall /\ obs.age >= 0) =>
           (obs.op = "hit" <=> (config.cacheEnabled /\ obs.age < config.ttl))
    /\ (obs.op = "done" /\ config.cacheEnabled) =>
           /\ obs.wrote
           /\ obs.reads # {}
           /\ ObsKey \in DOMAIN cache /\ cache[ObsKey] = obs.data
           /\ ObsKey \in DOMAIN cacheTimestamps /\ cacheTimestamps[ObsKey] = obs.at
           /\ obs.sawSpecific.st = "ok" => obs.data = obs.sawSpecific.doc
    /\ ~config.cacheEnabled =>
           /\ cache = NoEntries /\ cacheTimestamps = NoStamps
           /\ obs.op # "hit"
           /\ obs.op = "done" => (~obs.wrote /\ obs.reads # {})

\* C2 witness: a load finds its entry aged exactly ttl and goes to the source.
C2_Witness ==
    /\ obs.op = "miss" /\ config.cacheEnabled
    /\ obs.age = config.ttl /\ obs.stored # JUndef

\* C3: right after clearCache() both maps are empty, and a load issued
\* after it, before the cache is written again, is a miss for every key,
\* however recently the key was cached.
C3_ClearCacheEmptiesBoth ==
    /\ obs.op = "clear" => (cache = NoEntries /\ cacheTimestamps = NoStamps)
    /\ (IsCall /\ obs.clearedBefore) => (obs.op = "miss" /\ obs.stored = JUndef)

\* C3 witness: clearCache() drops the entries of both keys, cached in this
\* very tick.
C3_Witness ==
    /\ obs.op = "clear" /\ obs.dropped = 2
    /\ cache = NoEntries /\ cacheTimestamps = NoStamps
    /\ now = 0

-----------------------------------------------------------------------------
(* Properties of the source chain (SpecSource)                             *)

HasEntry(allData, k) == k \in DOMAIN allData.kids

\* The fallback chain as stated: the content of <name>.json if the file
\* exists; otherwise the [name] entry of sample-data.json if present; otherwise
\* its default entry if present; otherwise an empty object.
ChainResult(templateName, specific, sample) ==
    IF specific.st = "ok" THEN specific.doc
    ELSE IF sample.st = "ok" /\ HasEntry(sample.doc, templateName)
         THEN sample.doc.kids[templateName]
    ELSE IF sample.st = "ok" /\ HasEntry(sample.doc, "default")
         THEN sample.doc.kids["default"]
    ELSE EmptyObj

\* The json stage met only files that are present with JSON content, or absent.
ChainFilesSound ==
    /\ "specific" \in obs.reads
    /\ obs.sawSpecific.st \in {"ok", "absent"}
    /\ obs.sawSpecific.st = "absent" => obs.sawSample.st \in {"ok", "absent"}

\* C4: for every combination of presence and absence of <name>.json and
\* sample-data.json, an uncached load returns what the fallback chain states,
\* and a missing file at either stage raises no error.
C4_JsonFallbackChain ==
    (obs.op \in {"done", "fail"} /\ ChainFilesSound) =>
        /\ obs.op = "done"
        /\ obs.data = ChainResult(obs.name, obs.sawSpecific, obs.sawSample)
        /\ obs.sawSpecific.st = "ok" => "sample" \notin obs.reads

\* C4 witness: <name>.json is absent and sample-data.json has no entry for
\* the template but a default entry, which is returned.
C4_Witness ==
    /\ obs.op = "done" /\ ChainFilesSound
    /\ obs.sawSpecific.st = "absent" /\ obs.sawSample.st = "ok"
    /\ ~HasEntry(obs.sawSample.doc, obs.name)
    /\ HasEntry(obs.sawSample.doc, "default")
    /\ obs.data = obs.sawSample.doc.kids["default"]

\* A data file was there but could not be read or parsed.
ReadFailed ==
    \/ obs.sawSpecific.st \in {"badjson", "eacces"}
    \/ obs.sawSample.st \in {"badjson", "eacces"}

\* C5: when reading or parsing a data file fails for a reason other than the
\* file being absent, load fails with a DataLoadError, not the raw error, and
\* writes no cache entry.
C5_ReadFailureIsDataLoadError ==
    (obs.op = "fail" /\ ReadFailed) => (obs.err = "DataLoadError" /\ ~obs.wrote)

\* C6: with data source type api, load never fails the caller, whatever the
\* endpoint, the outcome of the request and the state of the fallback files.
C6_ApiNeverFails ==
    config.sourceType = "api" => obs.op # "fail"

-----------------------------------------------------------------------------
(* Properties of _deepMerge (SpecMerge)                                    *)

IsObj(v) == v.tag = "obj"

\* The merge as stated: for every key of the overrides, the recursive merge
\* if base and override both hold a plain object there, and otherwise exactly
\* the override value; keys only in base are preserved.
RECURSIVE StatedMerge(_, _)
StatedMerge(base, overrides) ==
    LET keys == DOMAIN overrides.kids IN
    JObj([k \in (DOMAIN base.kids) \cup keys |->
            IF k \in keys
            THEN IF k \in DOMAIN base.kids /\ IsObj(base.kids[k]) /\ IsObj(overrides.kids[k])
                 THEN StatedMerge(base.kids[k], overrides.kids[k])
                 ELSE overrides.kids[k]
            ELSE base.kids[k]])

\* C7: loadWithOverrides deep-merges the overrides onto the base data: both
\* plain objects at a key merge recursively; in every other case (the
\* override, or the base value, is an array, a primitive, null or missing)
\* the result at that key is exactly the override value; keys only in base
\* are preserved.
C7_DeepMergeAsStated ==
    mDone => mResult = StatedMerge(mBase, mOver)

-----------------------------------------------------------------------------
(* Properties of the watcher (SpecWatcher)                                 *)

Emitted == wobs.op = "emit"

\* C8: every emitted burst has needsFullReload = TRUE iff one of its changes
\* is typed layout or partial.
C8_NeedsFullReloadIffShared ==
    Emitted =>
        (burst.needsFullReload <=> \E c \in burst.changes : c.type \in {"layout", "partial"})

\* C8 witness: a burst of a single partial-typed change asks for a full reload.
C8_Witness ==
    /\ Emitted /\ burst.needsFullReload
    /\ Cardinality(burst.changes) = 1
    /\ \A c \in burst.changes : c.type = "partial"

\* The type stated for a path: by its first segment under the template root.
StatedType(filePath) ==
    LET first == filePath[Len(TemplatesDir) + 1] IN
    IF first = Dir("layouts") THEN "layout"
    ELSE IF first = Dir("partials") THEN "partial"
    ELSE IF first = Dir("emails") THEN "email"
    ELSE "unknown"

\* C9: each raw event of the burst is typed by the first path segment under
\* the template root and named by the file's base name without extension;
\* reloadTypes holds "layouts" iff a change is layout-typed and "partials" iff
\* a change is partial-typed, and nothing else; changedTemplates is exactly
\* the set of names of the email-typed changes.
C9_ClassificationAndAggregation ==
    Emitted =>
        /\ \A e \in wobs.window : \E c \in burst.changes :
              /\ c.event = e.event /\ c.filePath = e.filePath
              /\ c.type = StatedType(e.filePath)
              /\ c.name = e.filePath[Len(e.filePath)].stem
        /\ \A c \in burst.changes : c.type = StatedType(c.filePath)
        /\ "layouts" \in burst.reloadTypes <=> \E c \in burst.changes : c.type = "layout"
        /\ "partials" \in burst.reloadTypes <=> \E c \in burst.changes : c.type = "partial"
        /\ burst.reloadTypes \subseteq {"layouts", "partials"}
        /\ burst.changedTemplates = {c.name : c \in {d \in burst.changes : d.type = "email"}}

\* C9 witness: a burst touching a layout file, an email file in a nested
\* directory and a file outside the three directories.
C9_Witness ==
    /\ Emitted
    /\ burst.reloadTypes = {"layouts"}
    /\ burst.changedTemplates = {"welcome"}
    /\ \E c \in burst.changes : c.type = "unknown"
    /\ \E c \in burst.changes : c.type = "email" /\ Len(c.relativePath) = 3

\* C10: a run of raw events, each less than the debounce after the one
\* before, yields one burst: while changes are pending under a timer handle,
\* exactly one timer is armed, due one debounce after the last raw event; a
\* burst is emitted only once the debounce has elapsed since the last raw
\* event, it holds exactly one change per distinct raw event handled since
\* the burst before, and no timer is left armed to emit a second one.
C10_OneBurstPerRun ==
    /\ (pendingChanges # {} /\ debounceTimer # NoTimer) =>
           timers = {[id |-> debounceTimer, due |-> lastEventAt + config.debounce]}
    /\ Emitted =>
           /\ wobs.at >= wobs.lastEventAt + config.debounce
           /\ Cardinality(burst.changes) = Cardinality(wobs.window)
           /\ \A e \in wobs.window : \E c \in burst.changes :
                 c.event = e.event /\ c.filePath = e.filePath
           /\ timers = {}
           /\ pendingChanges = {}

\* C10 witness: five distinct raw events, one burst with five changes, the
\* first burst of the run.
C10_Witness ==
    /\ Emitted /\ emitCount = 1 /\ eventCount = 5
    /\ Cardinality(wobs.window) = 5
    /\ Cardinality(burst.changes) = 5
    /\ wobs.at = wobs.lastEventAt + config.debounce

-----------------------------------------------------------------------------
(* Properties of compile's rendering (SpecRender)                          *)

Compiled == cobs.kind = "compile" /\ cobs.op = "done"

Tokens(html) == {html[i] : i \in 1..Len(html)}

\* C17: for each of _templateName, _year and _timestamp that the template
\* outputs, the rendered html shows the caller's value when the caller's data
\* has the field, and the injected value only when the caller omitted it.
C17_CallerFieldsKept ==
    Compiled =>
        \A k \in {"_templateName", "_year", "_timestamp"} :
            (\E i \in 1..Len(cobs.src) : cobs.src[i] = Node("var", k)) =>
                IF k \in DOMAIN cobs.data.kids
                THEN cobs.data.kids[k].atom \in Tokens(cobs.result.html)
                ELSE Tokens(cobs.result.html) \cap
                         {cobs.name, "this-year", "this-instant"} # {}

\* The layout name as stated: options.layout if given, else data._layout if
\* present, else the configured default.
StatedLayout(options, data) ==
    IF options.layout.tag # "undef" THEN options.layout.atom
    ELSE IF "_layout" \in DOMAIN data.kids THEN data.kids["_layout"].atom
         ELSE DefaultLayout

\* A layout with the body in its body slot, unescaped.
RECURSIVE StatedWrap(_, _)
StatedWrap(layout, body) ==
    IF layout = <<>> THEN <<>>
    ELSE (IF Head(layout).k = "text" THEN <<Head(layout).v>> ELSE body)
             \o StatedWrap(Tail(layout), body)

\* C18: a compile uses the layout named by options.layout, else data._layout,
\* else the default; when that layout is loaded the html is the layout with
\* the rendered body unescaped in its body slot, and when it is not loaded
\* the compile succeeds and the html is the body alone.
C18_LayoutResolution ==
    (cobs.kind = "compile" /\ cobs.op \in {"done", "fail"}) =>
        LET name == StatedLayout(cobs.options, cobs.data)
            page == IF name \in DOMAIN layouts
                    THEN StatedWrap(layouts[name], cobs.body)
                    ELSE cobs.body
        IN  /\ cobs.op = "done"
            /\ cobs.wraps <=> name \in DOMAIN layouts
            /\ cobs.result.html =
                  IF cobs.options.inlineCss = JBool("false") THEN page ELSE Juice(page)

C18_Witness ==
    /\ Compiled /\ cobs.wraps
    /\ Nullish(cobs.options.layout)
    /\ "_layout" \in DOMAIN cobs.data.kids
    /\ cobs.body # <<>>

\* The first comment of html that holds the marker and a text, as stated:
\* a comment runs from "<!--" to the next "-->".
StatedSubjects(html) ==
    { oc \in (1..Len(html)) \X (1..Len(html)) :
        /\ oc[1] < oc[2]
        /\ html[oc[1]] = "<!--"
        /\ html[oc[2]] = "-->"
        /\ \A j \in (oc[1]+1)..(oc[2]-1) : html[j] # "-->"
        /\ LET inner == Trim(SubSeq(html, oc[1] + 1, oc[2] - 1)) IN
              /\ inner # <<>>
              /\ Head(inner) \in {"subject:", "Subject:", "SUBJECT:"}
              /\ Trim(Tail(inner)) # <<>> }

\* C19: the subject of a compile result is the trimmed text of the first
\* comment of the final html that holds the marker "subject:" in any case
\* followed by a text, and it is null exactly when the html has no such
\* comment.
C19_SubjectIsFirstMarkedComment ==
    Compiled =>
        LET html == cobs.result.html
            found == StatedSubjects(html)
        IN  IF found = {} THEN cobs.result.subject.null
            ELSE LET oc == CHOOSE x \in found : \A y \in found : x[1] <= y[1] IN
                 /\ ~cobs.result.subject.null
                 /\ cobs.result.subject.text =
                       Trim(Tail(Trim(SubSeq(html, oc[1] + 1, oc[2] - 1))))

C19_Witness ==
    /\ Compiled
    /\ cobs.data = JObj([k \in {"name"} |-> JStr("Ann")])
    /\ cobs.result.subject = [null |-> FALSE, text |-> <<"Hello", " ", "Ann">>]

-----------------------------------------------------------------------------
(* Properties of the compiler over time (SpecStore)                        *)

\* No file <name>.hbs exists under the email root.
Missing(name) ==
    \/ tree["emails"].st = "absent"
    \/ tree["emails"].st = "ok" /\ Seg(name, ".hbs") \notin DOMAIN tree["emails"].ents

\* C15: when the template read of a compile settles with no <name>.hbs under
\* the email root and no compiled template cached for the name, the compile
\* throws TemplateNotFoundError, returns no result, and the compiled
\* templates still hold no entry for the name.
C15_AbsentIsTemplateNotFound ==
    [][ \A i \in DOMAIN calls :
          ( /\ calls[i].pc = "reading"
            /\ calls'[i] = NoCall
            /\ Missing(calls[i].name)
            /\ calls[i].name \notin DOMAIN templates )
          => /\ cobs'.op = "fail"
             /\ cobs'.name = calls[i].name
             /\ cobs'.err = "TemplateNotFoundError"
             /\ cobs'.result = NoResult
             /\ calls[i].name \notin DOMAIN templates' ]_vars

C15_Witness ==
    /\ cobs.kind = "compile" /\ cobs.op = "fail"
    /\ cobs.err = "TemplateNotFoundError"
    /\ Missing(cobs.name)
    /\ cobs.name \notin DOMAIN templates

\* C16: a compile that fails for any reason but the absence of the template
\* file throws a CompilationError, and a template that does not parse is not
\* kept among the compiled templates.
C16_OtherFailuresAreCompilationErrors ==
    (cobs.kind = "compile" /\ cobs.op = "fail" /\ cobs.cause # "absent") =>
        /\ cobs.err = "CompilationError"
        /\ (cobs.cause = "body" /\ cobs.why = "parse") =>
              cobs.name \notin DOMAIN templates

\* The names of the .hbs files present under a root.
Present(root) ==
    IF tree[root].st # "ok" THEN {}
    ELSE {f.stem : f \in {g \in DOMAIN tree[root].ents : g.ext = ".hbs"}}

\* C20: when a reload that nothing overlapped returns, no template is
\* compiled, and the layouts and the partials are exactly the .hbs files
\* present under their roots, with the sources the files hold.
C20_ReloadMatchesDisk ==
    (cobs.kind = "reload" /\ cobs.op = "done" /\ cobs.solo) =>
        /\ templates = NoSources
        /\ DOMAIN layouts = Present("layouts")
        /\ DOMAIN partials = Present("partials")
        /\ \A n \in DOMAIN layouts :
              layouts[n] = tree["layouts"].ents[Seg(n, ".hbs")].src
        /\ \A n \in DOMAIN partials :
              partials[n] = tree["partials"].ents[Seg(n, ".hbs")].src

C20_Witness ==
    /\ cobs.kind = "reload" /\ cobs.op = "done" /\ cobs.solo
    /\ DOMAIN layouts = {"default"}
    /\ Seg("notes", ".txt") \in DOMAIN tree["layouts"].ents
    /\ DOMAIN partials = {"header"}

-----------------------------------------------------------------------------
(* Properties of the change handler (SpecPreview, SpecPreviewData)         *)

\* The step emits a burst to the change handler.
Emits == emitCount' = emitCount + 1

\* C11: a step starts a reload of the compiler exactly when it hands the
\* change handler a burst with needsFullReload, and the handling of a burst
\* without needsFullReload leaves layouts, partials and compiled templates
\* as they are.
C11_ReloadIffNeedsFullReload ==
    [][ /\ (\E i \in DOMAIN calls :
               calls'[i].kind = "reload" /\ calls[i].kind # "reload")
           <=> (Emits /\ burst'.needsFullReload)
        /\ (Emits /\ ~burst'.needsFullReload) =>
              /\ layouts' = layouts
              /\ partials' = partials
              /\ templates' = templates ]_vars

C11_Witness ==
    /\ \E i \in DOMAIN calls : calls[i].kind = "reload" /\ calls[i].by = "preview"
    /\ \E k \in 1..Len(sent) : sent[k].type = "reload"
    /\ emitCount = 2

\* C12: whenever the handling of a burst finishes, with either message, the
\* data cache has been cleared: it holds no entry.
C12_EveryBurstClearsCache ==
    [][ sent' # sent => (cache' = NoEntries /\ cacheTimestamps' = NoStamps) ]_vars

\* C13: every burst emitted is either still waiting for its reload or has
\* been answered by exactly one message; a burst whose reload threw was
\* answered by an error message carrying the failure's message and by no
\* reload message, whatever happened to the bursts before it.
C13_FailureBecomesErrorMessage ==
    /\ \A b \in 1..emitCount :
          LET answers == {k \in 1..Len(sent) : sent[k].burst = b}
              waiting == \E i \in DOMAIN calls :
                            /\ calls[i].by = "preview" /\ calls[i].burst = b
                            /\ calls[i].pc = "loading"
          IN  IF waiting THEN answers = {} ELSE Cardinality(answers) = 1
    /\ (cobs.kind = "reload" /\ cobs.op = "fail" /\ cobs.by = "preview") =>
          /\ \E k \in 1..Len(sent) :
                /\ sent[k].type = "error" /\ sent[k].message = cobs.cause
                /\ sent[k].burst = cobs.burst
          /\ \A k \in 1..Len(sent) :
                sent[k].burst = cobs.burst => sent[k].type = "error"

C13_Witness ==
    \E k \in 1..Len(sent) :
        /\ sent[k].type = "error"
        /\ \E j \in (k+1)..Len(sent) : sent[j].type = "reload" /\ sent[j].burst > sent[k].burst

\* C14: the handling of a burst whose changes are all of email templates
\* reloads no layout or partial and leaves no compiled template for any of
\* the changed names, so that the next compile of such a name reads its file.
C14_EmailChangeInvalidatesTemplate ==
    [][ (Emits /\ burst'.changes # {} /\ \A c \in burst'.changes : c.type = "email") =>
            /\ layouts' = layouts
            /\ partials' = partials
            /\ \A n \in burst'.changedTemplates : n \notin DOMAIN templates' ]_vars

-----------------------------------------------------------------------------
(* Properties of the watcher's lifecycle                                   *)

\* C22: start() on a running watcher creates no second observer: at every
\* moment at most one observer exists, one exactly while the watcher runs, so
\* each raw event reaches _handleChange once.
C22_StartIsIdempotent ==
    observers = (IF watching = "on" THEN 1 ELSE 0)

\* C22 witness: start() was the last call, on a watcher that has been running
\* since it armed the timer still pending.
C22_Witness ==
    /\ wobs.op = "start" /\ watching = "on"
    /\ timers # {} /\ pendingChanges # {}
    /\ observers = 1

\* C23: a watcher that is not running (never started, or stopped) holds no
\* timer handle and no armed timer, and emits no burst until it is started
\* again; stop() on such a watcher completes.
C23_StoppedStaysQuiet ==
    /\ [](watching = "off" => timers = {} /\ debounceTimer = NoTimer)
    /\ [][watching = "off" => emitCount' = emitCount]_vars

\* C23 witness: stop() has completed on a watcher with changes pending.
C23_Witness ==
    /\ wobs.op = "stopped" /\ watching = "off"
    /\ pendingChanges # {} /\ emitCount = 0

\* C24: an error of the observer is never thrown out of the watcher's
\* handler, whether or not an 'error' listener is registered.
C24_ErrorsNeverThrown ==
    wobs.op # "throw"

\* C27: right after a burst was emitted the watcher is idle: nothing is
\* pending and no timer handle is held.
C27_IdleAfterEmission ==
    Emitted => (pendingChanges = {} /\ debounceTimer = NoTimer)

\* C28: in a run without stop(), the pending set holds exactly one description
\* for each distinct raw event handled since the last emission, a timer is
\* armed for it while it is not empty, and an emission hands over the whole
\* set and empties it, so that no change is dropped and none is emitted twice.
C28_PendingSetSemantics ==
    /\ [](pendingChanges = {Description(e.event, e.filePath) : e \in window})
    /\ [](pendingChanges # {} => \E t \in timers : t.id = debounceTimer)
    /\ [][Emits => (burst'.changes = pendingChanges /\ pendingChanges' = {})]_vars

\* C28 witness: two raw events with the same description were handled in one
\* window and its burst holds one change.
C28_Witness ==
    /\ Emitted /\ emitCount = 1 /\ eventCount = 2
    /\ Cardinality(burst.changes) = 1

\* C29: at most one timer is armed, and it is the one the handle names: a
\* timer that was superseded or cancelled is not armed any more; every
\* emission finds changes pending, so no window is emitted twice.
C29_OneTimerArmed ==
    /\ [](Cardinality(timers) <= 1)
    /\ [](\A t \in timers : t.id = debounceTimer)
    /\ [][Emits => pendingChanges # {}]_vars

\* C29 witness: a second raw event superseded the timer of the first before
\* any burst was emitted.
C29_Witness ==
    /\ wobs.op = "event" /\ wobs.at = 0
    /\ debounceTimer = 2 /\ emitCount = 0
    /\ Cardinality(timers) = 1

-----------------------------------------------------------------------------
(* Properties of the order of a burst's handling (SpecPreviewData)         *)

\* C30: a step that broadcasts 'reload' for a burst leaves the data cache
\* empty and no reload() of that burst in progress; for a burst that needed a
\* reload it is the step in which that reload() completed, and otherwise the
\* step in which the burst was emitted.
C30_ReloadBroadcastComesLast ==
    [][ (Len(sent') = Len(sent) + 1 /\ sent'[Len(sent')].type = "reload") =>
            LET m == sent'[Len(sent')] IN
            /\ cache' = NoEntries /\ cacheTimestamps' = NoStamps
            /\ \A i \in DOMAIN calls : ~(calls'[i].by = "preview" /\ calls'[i].burst = m.burst)
            /\ IF Emits
               THEN ~burst'.needsFullReload /\ m.burst = emitCount'
               ELSE /\ cobs'.kind = "reload" /\ cobs'.op = "done"
                    /\ cobs'.by = "preview" /\ cobs'.burst = m.burst ]_vars

\* C30 witness: the reload() of a burst has completed, cached data was
\* dropped and 'reload' is the last message, for that burst.
C30_Witness ==
    /\ cobs.kind = "reload" /\ cobs.op = "done" /\ cobs.by = "preview"
    /\ obs.op = "clear" /\ obs.dropped > 0
    /\ sent # <<>>
    /\ sent[Len(sent)].type = "reload" /\ sent[Len(sent)].burst = cobs.burst

-----------------------------------------------------------------------------
(* Properties of the compiler's initialization, listing and cache          *)

\* C21: on an initialized compiler no call other than reload() starts the
\* loaders, and an init() returns at once, leaving layouts, partials and
\* compiled templates as they are; an init() never fails because a root is
\* absent, and one that nothing overlapped leaves the map of an absent root
\* empty.
C21_InitIsIdempotent ==
    /\ [][ initialized =>
              /\ \A i \in DOMAIN calls :
                    (calls[i].kind = "idle" /\ calls'[i].pc = "loading") =>
                        calls'[i].kind = "reload"
              /\ (cobs' # cobs /\ cobs'.kind = "init" /\ calls' = calls) =>
                    (cobs'.op = "done" /\ UNCHANGED <<layouts, partials, templates>>) ]_vars
    /\ []((cobs.kind = "init" /\ cobs.op = "fail") => tree[cobs.cause].st # "absent")
    /\ []((cobs.kind = "init" /\ cobs.op = "done" /\ ~cobs.cached /\ cobs.solo) =>
              /\ tree["layouts"].st = "absent" => layouts = NoSources
              /\ tree["partials"].st = "absent" => partials = NoSources)

\* C21 witness: an init() returned at once on a compiler that holds a layout
\* and whose partial root is absent.
C21_Witness ==
    /\ cobs.kind = "init" /\ cobs.op = "done" /\ cobs.cached
    /\ initialized /\ layouts # NoSources
    /\ tree["partials"].st = "absent" /\ partials = NoSources

\* C25: listTemplates() on an absent email root returns the empty list; on
\* a readable root it returns each base name of a .hbs file of the root once,
\* and nothing else.
C25_ListIsHbsBaseNames ==
    cobs.kind = "list" =>
        IF tree["emails"].st = "absent"
        THEN cobs.op = "done" /\ cobs.names = <<>>
        ELSE /\ cobs.op = "done"
             /\ {cobs.names[k] : k \in 1..Len(cobs.names)} = Present("emails")
             /\ Len(cobs.names) = Cardinality(Present("emails"))

\* C25 witness: a root holding two .hbs files and a .txt file was listed.
C25_Witness ==
    /\ cobs.kind = "list" /\ cobs.op = "done"
    /\ Len(cobs.names) = 2
    /\ Seg("notes", ".txt") \in DOMAIN tree["emails"].ents

ReloadStarts == \E i \in DOMAIN calls : calls[i].kind = "idle" /\ calls'[i].kind = "reload"

\* A compile(name) that finds name compiled does not read the file.
CachedIsNotRead ==
    \A i \in DOMAIN calls :
        (calls[i].kind = "idle" /\ calls'[i].pc = "reading") =>
            calls'[i].name \notin DOMAIN templates

\* C26 as stated: a compile(name) that finds name compiled does not read the
\* file, and only a step that starts reload() removes or replaces an entry of
\* the compiled templates.
C26_CachedUntilReload ==
    [][ /\ CachedIsNotRead
        /\ ReloadStarts \/ \A n \in DOMAIN templates :
               n \in DOMAIN templates' /\ templates'[n] = templates[n] ]_vars

\* C26 amended: a compile(name) that finds name compiled does not read the
\* file; only a step that starts reload() removes an entry; an entry is
\* replaced only when the read of a compile(name) settles that missed the
\* cache before the entry was written.
C26_CachedUntilReloadOrOverlap ==
    [][ /\ CachedIsNotRead
        /\ ReloadStarts \/ \A n \in DOMAIN templates :
               /\ n \in DOMAIN templates'
               /\ templates'[n] # templates[n] =>
                      \E i \in DOMAIN calls :
                          /\ calls[i].pc = "reading" /\ calls[i].name = n
                          /\ calls'[i].kind = "idle" ]_vars

\* C26 witness: the template is compiled while the read of another
\* compile() of it is pending and the file has changed since.
C26_Witness ==
    /\ "welcome" \in DOMAIN templates
    /\ \E i \in DOMAIN calls : calls[i].pc = "reading" /\ calls[i].name = "welcome"
    /\ tree["emails"].st = "ok"
    /\ Seg("welcome", ".hbs") \in DOMAIN tree["emails"].ents
    /\ tree["emails"].ents[Seg("welcome", ".hbs")].src # templates["welcome"]

-----------------------------------------------------------------------------
(* Properties of overlapping operations                                    *)

\* C31: a burst is emitted only when the reaction to every burst before it
\* has completed: no reload() called by the change handler is in progress.
C31_BurstsHandledInOrder ==
    [][ Emits => \A i \in DOMAIN calls :
                    ~(calls[i].by = "preview" /\ calls[i].pc = "loading") ]_vars

\* C39: a template whose layout is on disk throughout is never rendered
\* without it, whatever reload() is in progress.
C39_NeverRenderedWithoutLayout ==
    (Compiled /\ Seg(DefaultLayout, ".hbs") \in DOMAIN tree["layouts"].ents) => cobs.wraps

\* C40: when stop() has completed nothing is pending.
C40_StopDiscardsPending ==
    wobs.op = "stopped" => pendingChanges = {}

\* C35: every load() that missed the cache has read a source itself by the
\* time it resolves, whatever other calls were in flight; when it resolves
\* with caching enabled the entry of its key is the data it loaded (the last
\* write wins), and it leaves the entries of all other keys as they were.
C35_NoDedupLastWriteWins ==
    /\ [](obs.op = "done" =>
            /\ obs.reads # {}
            /\ obs.wrote => (ObsKey \in DOMAIN cache /\ cache[ObsKey] = obs.data))
    /\ [][ \A i \in DOMAIN inflight :
              (inflight[i].stage # "idle" /\ inflight'[i].stage = "idle") =>
                  \A k \in DOMAIN cache \ {<<inflight[i].name, inflight[i].params>>} :
                      /\ k \in DOMAIN cache' /\ cache'[k] = cache[k]
                      /\ k \in DOMAIN cacheTimestamps
                            => cacheTimestamps'[k] = cacheTimestamps[k] ]_vars

\* C35 witness: of two calls for one key that both missed, the first has
\* resolved and written the entry, the second is still reading, and the file
\* has changed in between.
C35_Witness ==
    /\ obs.op = "done" /\ obs.wrote /\ cache[ObsKey] = obs.data
    /\ \E i \in DOMAIN inflight :
          /\ inflight[i].stage = "specific"
          /\ <<inflight[i].name, inflight[i].params>> = ObsKey
          /\ files[SpecificFile(obs.name)] # Holding(obs.data)
    /\ Cardinality(DOMAIN cache) = 2

-----------------------------------------------------------------------------
(* Properties of the API source and of loads in flight (SpecSource)        *)

\* C36: every load() waiting for the API, for the answer or for its body,
\* completes.
C36_ApiLoadCompletes ==
    \A i \in 1..MaxInflight :
        (inflight[i].stage \in {"api", "body"}) ~> (inflight[i].stage = "idle")

\* C37: no load() writes the cache with data that was on its way when
\* clearCache() ran.
C37_NoPreClearData ==
    ~(obs.op = "done" /\ obs.wrote /\ obs.stale)

-----------------------------------------------------------------------------
(* Properties of compiles that overlap a reload (SpecOverlap)              *)

\* C38: once reload() has completed, no compile stores in this.templates a
\* template parsed from content that was read before that reload() began.
C38_NoPreReloadTemplate ==
    (/\ cobs.kind = "compile" /\ cobs.op = "done" /\ cobs.pre
     /\ cobs.name \in DOMAIN templates /\ templates[cobs.name] = cobs.src)
        => \E i \in DOMAIN calls : calls[i].kind = "reload"

-----------------------------------------------------------------------------
(* Properties of the notification channel (SpecClients, SpecServers)       *)

Ids(clients) == {clients[i].id : i \in 1..Len(clients)}
OpenIds(clients) ==
    {clients[i].id : i \in {j \in 1..Len(clients) : clients[j].readyState = "OPEN"}}

\* C33: a client set holds each socket once and changes only by a connect
\* (one socket more, open) or a close event (one socket less, which had left
\* the open state); every broadcast sends its message exactly once to each
\* client of the set that is open at that time and to nobody else, and
\* leaves the set as it was.
C33_BroadcastMembership ==
    /\ [](\A k \in 1..Len(servers) :
            Cardinality(Ids(servers[k].clients)) = Len(servers[k].clients))
    /\ [][ /\ \A j \in (Len(sent) + 1)..Len(sent') :
               LET m    == sent'[j]
                   open == OpenIds(servers[m.server].clients)
               IN  /\ \A c \in open :
                         Cardinality({i \in 1..Len(m.to) : m.to[i] = c}) = 1
                   /\ \A i \in 1..Len(m.to) : m.to[i] \in open
                   /\ servers' = servers
           /\ \A k \in 1..Len(servers) :
               LET before == Ids(servers[k].clients)
                   after  == Ids(servers'[k].clients)
               IN  \/ after = before
                   \/ \E c \in (1..MaxClients) \ before :
                         /\ after = before \cup {c}
                         /\ c \in OpenIds(servers'[k].clients)
                   \/ \E c \in before \ OpenIds(servers[k].clients) :
                         after = before \ {c} ]_vars

\* A burst was announced to the one open client while another client of the
\* set was closing, after an earlier burst had been announced to both.
C33_Witness ==
    /\ Len(sent) = 2
    /\ Len(sent[1].to) = 2
    /\ Len(sent[2].to) = 1
    /\ Len(servers[1].clients) = 2
    /\ \E i \in 1..2 : /\ servers[1].clients[i].readyState = "CLOSING"
                       /\ servers[1].clients[i].id # sent[2].to[1]

\* C32: no burst is answered by more than one message, however often the
\* preview was stopped and started.
C32_OneMessagePerBurst ==
    \A b \in 1..emitCount :
        Cardinality({k \in 1..Len(sent) : sent[k].burst = b}) <= 1

\* C34: an error the observer reports is announced to the clients by an
\* error message.
C34_WatcherErrorIsAnnounced ==
    [][ (wobs' # wobs /\ wobs'.op = "error") =>
            /\ Len(sent') = Len(sent) + 1
            /\ sent'[Len(sent')].type = "error" ]_vars

====
